---- MODULE Spec2Model ----
(***************************************************************************)
(* Version lifecycle of dashboard blocks (backend/app/services).           *)
(*                                                                         *)
(* The relational store is modelled as four tables: blocks, versions and  *)
(* cached data in insertion order (the position of a row is its            *)
(* autoincrement id), the execution logs as a bag of rows (the code reads  *)
(* them only through block, success and created_at); the artifact tree as  *)
(* the set of version directories, and the wall clock as a tick counter.  *)
(* The code-generation oracle and the child process are the                *)
(* environment: what they return is an input of each step.  A handler is   *)
(* followed from one suspension point to the next: a call starts, runs to  *)
(* its await of the oracle or of the child, and resumes with the answer;   *)
(* between two awaits of one call the other calls in flight run their own  *)
(* stretches on the same store.  Each stretch is an operator from the      *)
(* store and the call (what its session loaded before the await) to the    *)
(* store it leaves and the call as it waits or ends.  The operators of     *)
(* whole calls (create_block, update_block, heal_block, RefreshResults,    *)
(* GetDataResults) are the stretches of one call with no other call in     *)
(* between.  Columns that no decision of the code reads (prompt, title,    *)
(* frontend code, explanation, error message, the creation timestamps of   *)
(* blocks and versions)                                                    *)
(* are left out of the rows.  The clock counts half hours.                 *)
(* auto_heals and refresh_failures are history variables: the heal         *)
(* attempts that refreshes started on their own and the failed runs of     *)
(* refreshes, each with its block and its time.  calls is the bag of the   *)
(* calls in flight: where each waits and what its session has loaded.      *)
(* The database is a sqlite file                                           *)
(* (core/config.py): between the flush of a create and its commit the     *)
(* flush or commit of another call raises, none of its rows is written     *)
(* and the call ends.  Nothing bounds the time a call waits for the        *)
(* oracle: the clock moves while calls are in flight.                      *)
(* process is one call of the executor with its child;                     *)
(* import_call is one import statement executed inside a child, response   *)
(* one answer of the oracle on its way through the parser, cleanup one     *)
(* call of the retention routine on a tree of artifact directories.        *)
(***************************************************************************)
EXTENDS Integers, Sequences, FiniteSets, Bags, TLC

VARIABLES blocks, versions, logs, data, dirs, now, auto_heals, refresh_failures,
          calls, process, import_call, response, cleanup

vars == <<blocks, versions, logs, data, dirs, now, auto_heals, refresh_failures,
          calls, process, import_call, response, cleanup>>

\* the variables that only the specifications of single components follow
aside == <<process, import_call, response, cleanup>>

(* ------------------------------ bounds -------------------------------- *)
MaxBlocks == 1
MaxVersions == 3
MaxLogs == 3
MaxData == 1
\* executor runs and oracle calls one top-level refresh may draw from
MaxRuns == 4
MaxGens == 2

(* --------------------------- environment ------------------------------ *)
Codes == {"code"}
OracleError == "oracle_error"
OracleResults == Codes \cup {OracleError}
Payloads == {"p1", "p2"}
ExecFail == "fail"
ExecResults == Payloads \cup {ExecFail}
\* refresh intervals, in half hours like the clock
Intervals == {1}
\* the throttle window of refresh_block_data: an hour, in ticks of the clock
Hour == 2
Layouts == {"default", "moved"}
NoData == "none"

(* ------------------------------- rows --------------------------------- *)
\* models/block.py: Block, with the column defaults applied at flush;
\* updated_at is set by the store on insert and on every update of the row
Block(interval, t) ==
  [status |-> "active", current_version |-> 1, refresh_interval |-> interval,
   layout_data |-> "default", updated_at |-> t]

\* models/block.py: BlockVersion; status is the column default
BlockVersion(b, v, code) ==
  [block_id |-> b, version |-> v, backend_code |-> code, status |-> "active"]

\* models/block.py: ExecutionLog
ExecutionLog(b, v, type, ok, t) ==
  [block_id |-> b, version |-> v, execution_type |-> type, success |-> ok,
   created_at |-> t]

\* a cached row whose expiry is the refresh interval alone, not counted from
\* the time of the fetch
BlockData_ExpiresAtInterval(b, payload, t, interval, code) ==
  [block_id |-> b, data |-> payload, fetched_at |-> t,
   expires_at |-> interval, code |-> code]

\* models/block.py: BlockData; code is the backend code whose run produced
\* the payload (history only, no column of the table)
BlockData(b, payload, t, interval, code) ==
  [block_id |-> b, data |-> payload, fetched_at |-> t,
   expires_at |-> t + interval, code |-> code]

(* ------------------------------ queries ------------------------------- *)
\* db.query(Block).filter(Block.id == block_id).first()
BlockExists(st, b) == b \in 1..Len(st.blocks)

Min(S) == CHOOSE x \in S : \A y \in S : x <= y

\* db.query(BlockVersion).filter(block_id ==, version ==).first(): the ids of
\* the matching rows; first() takes the one the store returns first
VersionRowIds(st, b, v) ==
  {i \in 1..Len(st.versions) :
     st.versions[i].block_id = b /\ st.versions[i].version = v}

FirstVersion(st, b, v) == st.versions[Min(VersionRowIds(st, b, v))]

\* one more row in the log table
AddRow(bag, row) == bag (+) SetToBag({row})

\* the number of log rows a filter selects, rows being the distinct rows it
\* matches: query(ExecutionLog).filter(...).count()
CountLogs(st, rows) ==
  BagCardinality([r \in rows \cap BagToSet(st.logs) |-> CopiesIn(r, st.logs)])

\* heal_block's latest_error query finds a row
FailureLogs(st, b) ==
  {r \in BagToSet(st.logs) : r.block_id = b /\ r.success = FALSE}

\* the throttle query counting only the failed fetches
RecentErrors_FetchOnly(st, b, t) ==
  CountLogs(st, {r \in BagToSet(st.logs) : /\ r.block_id = b
                                            /\ r.success = FALSE
                                            /\ r.execution_type = "fetch"
                                            /\ r.created_at > t - Hour})

\* the throttle query counting the failures of every block
RecentErrors_AnyBlock(st, b, t) ==
  CountLogs(st, {r \in BagToSet(st.logs) : /\ r.success = FALSE
                                            /\ r.created_at > t - Hour})

\* the throttle query of refresh_block_data
RecentErrors(st, b, t) ==
  CountLogs(st, {r \in BagToSet(st.logs) : /\ r.block_id = b
                                            /\ r.success = FALSE
                                            /\ r.created_at > t - Hour})

(* ------------------------------ results ------------------------------- *)
\* what a call hands back: the store after it, how it ended, the payload it
\* returned, the executor runs it made (in order), the oracle calls and heal
\* attempts it made, and the run whose exception reached the caller
Result(st, outcome, payload, execs, gens, heals, raisedBy) ==
  [st |-> st, outcome |-> outcome, payload |-> payload, execs |-> execs,
   gens |-> gens, heals |-> heals, raisedBy |-> raisedBy, cached |-> FALSE]

\* a call that asked for an input it was not given stops there
Starved == "starved"
StarvedGen == "starved_gen"
StarvedRun == "starved_run"
IsStarved(r) == r.outcome \in {StarvedGen, StarvedRun}

\* the i-th input of a call, or Starved when the call asks for more than given
Nth(seq, i) == IF i <= Len(seq) THEN seq[i] ELSE Starved

(* ------------------------------ executor ------------------------------ *)
\* ExecutionService.execute_block: materialises the version directory, then
\* runs the child; run is what the child did (a payload, or a failure)
execute_block(st, b, v, run) ==
  [st |-> [st EXCEPT !.dirs = @ \cup {<<b, v>>}],
   ok |-> run \in Payloads,
   payload |-> IF run \in Payloads THEN run ELSE NoData]

(* ------------------------------ lifecycle ----------------------------- *)

\* create_block that logs the failed run but leaves the status at its default
create_block_KeepsActive(st, t, interval, gen, run) ==
  IF gen = OracleError
  THEN Result(st, "oracle_error", NoData, <<>>, 1, 0, 0)
  ELSE
    LET id == Len(st.blocks) + 1
        s1 == [st EXCEPT !.blocks = Append(@, Block(interval, t)),
                         !.versions = Append(@, BlockVersion(id, 1, gen))]
        ex == execute_block(s1, id, 1, run)
        s2 == IF ex.ok
              THEN [ex.st EXCEPT !.blocks[id].status = "active"]
              ELSE [ex.st EXCEPT
                      !.logs = AddRow(@, ExecutionLog(id, 1, "fetch", FALSE, t))]
    IN Result(s2, "returned", NoData, <<run>>, 1, 0, 0)

\* BlockService.create_block
create_block(st, t, interval, gen, run) ==
  IF gen = OracleError
  THEN Result(st, "oracle_error", NoData, <<>>, 1, 0, 0)
  ELSE
    LET id == Len(st.blocks) + 1
        s1 == [st EXCEPT !.blocks = Append(@, Block(interval, t)),
                         !.versions = Append(@, BlockVersion(id, 1, gen))]
        ex == execute_block(s1, id, 1, run)
        s2 == IF ex.ok
              THEN [ex.st EXCEPT !.blocks[id].status = "active"]
              ELSE [ex.st EXCEPT
                      !.blocks[id].status = "error",
                      !.logs = AddRow(@, ExecutionLog(id, 1, "fetch", FALSE, t))]
    IN Result(s2, "returned", NoData, <<run>>, 1, 0, 0)

\* update_block whose failure log carries the current version
update_block_LogsOldVersion(st, t, b, gen, run) ==
  IF ~BlockExists(st, b)
  THEN Result(st, "not_found", NoData, <<>>, 0, 0, 0)
  ELSE IF gen = OracleError
  THEN Result(st, "oracle_error", NoData, <<>>, 1, 0, 0)
  ELSE
    LET new_version == st.blocks[b].current_version + 1
        s1 == [st EXCEPT !.versions = Append(@, BlockVersion(b, new_version, gen))]
        ex == execute_block(s1, b, new_version, run)
        s2 == IF ex.ok
              THEN [ex.st EXCEPT !.blocks[b].current_version = new_version,
                                 !.blocks[b].status = "active"]
              ELSE [ex.st EXCEPT
                      !.blocks[b].status = "error",
                      !.logs = AddRow(@, ExecutionLog(b, st.blocks[b].current_version, "fetch",
                                                      FALSE, t))]
    IN Result([s2 EXCEPT !.blocks[b].updated_at = t],
              "returned", NoData, <<run>>, 1, 0, 0)

\* update_block that moves the pointer before the validation run
update_block_AdvanceOnFailure(st, t, b, gen, run) ==
  IF ~BlockExists(st, b)
  THEN Result(st, "not_found", NoData, <<>>, 0, 0, 0)
  ELSE IF gen = OracleError
  THEN Result(st, "oracle_error", NoData, <<>>, 1, 0, 0)
  ELSE
    LET new_version == st.blocks[b].current_version + 1
        s1 == [st EXCEPT !.versions = Append(@, BlockVersion(b, new_version, gen))]
        ex == execute_block(s1, b, new_version, run)
        s2 == IF ex.ok
              THEN [ex.st EXCEPT !.blocks[b].current_version = new_version,
                                 !.blocks[b].status = "active"]
              ELSE [ex.st EXCEPT
                      !.blocks[b].current_version = new_version,
                      !.blocks[b].status = "error",
                      !.logs = AddRow(@, ExecutionLog(b, new_version, "fetch",
                                                      FALSE, t))]
    IN Result([s2 EXCEPT !.blocks[b].updated_at = t],
              "returned", NoData, <<run>>, 1, 0, 0)

\* update_block that records the failure of the oracle against the block
update_block_RecordsOracleFailure(st, t, b, gen, run) ==
  IF ~BlockExists(st, b)
  THEN Result(st, "not_found", NoData, <<>>, 0, 0, 0)
  ELSE IF gen = OracleError
  THEN Result([st EXCEPT
                 !.blocks[b].status = "error",
                 !.logs = AddRow(@, ExecutionLog(b, st.blocks[b].current_version,
                                                 "fetch", FALSE, t))],
              "oracle_error", NoData, <<>>, 1, 0, 0)
  ELSE
    LET new_version == st.blocks[b].current_version + 1
        s1 == [st EXCEPT !.versions = Append(@, BlockVersion(b, new_version, gen))]
        ex == execute_block(s1, b, new_version, run)
        s2 == IF ex.ok
              THEN [ex.st EXCEPT !.blocks[b].current_version = new_version,
                                 !.blocks[b].status = "active"]
              ELSE [ex.st EXCEPT
                      !.blocks[b].status = "error",
                      !.logs = AddRow(@, ExecutionLog(b, new_version, "fetch",
                                                      FALSE, t))]
    IN Result([s2 EXCEPT !.blocks[b].updated_at = t],
              "returned", NoData, <<run>>, 1, 0, 0)

\* BlockService.update_block
update_block(st, t, b, gen, run) ==
  IF ~BlockExists(st, b)
  THEN Result(st, "not_found", NoData, <<>>, 0, 0, 0)
  ELSE IF gen = OracleError
  THEN Result(st, "oracle_error", NoData, <<>>, 1, 0, 0)
  ELSE
    LET new_version == st.blocks[b].current_version + 1
        s1 == [st EXCEPT !.versions = Append(@, BlockVersion(b, new_version, gen))]
        ex == execute_block(s1, b, new_version, run)
        s2 == IF ex.ok
              THEN [ex.st EXCEPT !.blocks[b].current_version = new_version,
                                 !.blocks[b].status = "active"]
              ELSE [ex.st EXCEPT
                      !.blocks[b].status = "error",
                      !.logs = AddRow(@, ExecutionLog(b, new_version, "fetch",
                                                      FALSE, t))]
    IN Result([s2 EXCEPT !.blocks[b].updated_at = t],
              "returned", NoData, <<run>>, 1, 0, 0)

\* heal_block that moves the pointer before the validation run
heal_block_AdvanceBeforeRun(st, t, b, gen, run) ==
  IF ~BlockExists(st, b)
  THEN Result(st, "not_found", NoData, <<>>, 0, 0, 0)
  ELSE IF VersionRowIds(st, b, st.blocks[b].current_version) = {}
          \/ FailureLogs(st, b) = {}
  THEN Result(st, "precondition", NoData, <<>>, 0, 0, 0)
  ELSE IF gen = Starved
  THEN Result(st, StarvedGen, NoData, <<>>, 0, 0, 0)
  ELSE IF gen = OracleError
  THEN Result([st EXCEPT !.logs = AddRow(@,
                 ExecutionLog(b, st.blocks[b].current_version, "heal", FALSE, t))],
              "returned", NoData, <<>>, 1, 0, 0)
  ELSE IF run = Starved
  THEN Result(st, StarvedRun, NoData, <<>>, 1, 0, 0)
  ELSE
    LET new_version == st.blocks[b].current_version + 1
        s1 == [st EXCEPT !.versions = Append(@, BlockVersion(b, new_version, gen))]
        ex == execute_block(s1, b, new_version, run)
        s2 == IF ex.ok
              THEN [ex.st EXCEPT
                      !.blocks[b].current_version = new_version,
                      !.blocks[b].status = "active",
                      !.blocks[b].updated_at = t,
                      !.logs = AddRow(@, ExecutionLog(b, new_version, "heal",
                                                      TRUE, t))]
              ELSE [ex.st EXCEPT
                      !.blocks[b].current_version = new_version,
                      !.logs = AddRow(@, ExecutionLog(
                                  b, new_version, "heal",
                                  FALSE, t))]
    IN Result(s2, "returned", NoData, <<run>>, 1, 0, 0)

\* heal_block whose failure log carries the rejected version
heal_block_LogsNewVersion(st, t, b, gen, run) ==
  IF ~BlockExists(st, b)
  THEN Result(st, "not_found", NoData, <<>>, 0, 0, 0)
  ELSE IF VersionRowIds(st, b, st.blocks[b].current_version) = {}
          \/ FailureLogs(st, b) = {}
  THEN Result(st, "precondition", NoData, <<>>, 0, 0, 0)
  ELSE IF gen = Starved
  THEN Result(st, StarvedGen, NoData, <<>>, 0, 0, 0)
  ELSE IF gen = OracleError
  THEN Result([st EXCEPT !.logs = AddRow(@,
                 ExecutionLog(b, st.blocks[b].current_version, "heal", FALSE, t))],
              "returned", NoData, <<>>, 1, 0, 0)
  ELSE IF run = Starved
  THEN Result(st, StarvedRun, NoData, <<>>, 1, 0, 0)
  ELSE
    LET new_version == st.blocks[b].current_version + 1
        s1 == [st EXCEPT !.versions = Append(@, BlockVersion(b, new_version, gen))]
        ex == execute_block(s1, b, new_version, run)
        s2 == IF ex.ok
              THEN [ex.st EXCEPT
                      !.blocks[b].current_version = new_version,
                      !.blocks[b].status = "active",
                      !.blocks[b].updated_at = t,
                      !.logs = AddRow(@, ExecutionLog(b, new_version, "heal",
                                                      TRUE, t))]
              ELSE [ex.st EXCEPT
                      !.logs = AddRow(@, ExecutionLog(
                                  b, new_version, "heal",
                                  FALSE, t))]
    IN Result(s2, "returned", NoData, <<run>>, 1, 0, 0)

\* heal_block whose precondition rejects only when both the version and the
\* failure log are missing; with no failure log the read of its message fails
\* inside the try block and is logged as a failed heal
heal_block_AndPrecondition(st, t, b, gen, run) ==
  IF ~BlockExists(st, b)
  THEN Result(st, "not_found", NoData, <<>>, 0, 0, 0)
  ELSE IF VersionRowIds(st, b, st.blocks[b].current_version) = {}
          /\ FailureLogs(st, b) = {}
  THEN Result(st, "precondition", NoData, <<>>, 0, 0, 0)
  ELSE IF VersionRowIds(st, b, st.blocks[b].current_version) = {}
          \/ FailureLogs(st, b) = {}
  THEN Result([st EXCEPT !.logs = AddRow(@,
                 ExecutionLog(b, st.blocks[b].current_version, "heal", FALSE, t))],
              "returned", NoData, <<>>, 0, 0, 0)
  ELSE IF gen = Starved
  THEN Result(st, StarvedGen, NoData, <<>>, 0, 0, 0)
  ELSE IF gen = OracleError
  THEN Result([st EXCEPT !.logs = AddRow(@,
                 ExecutionLog(b, st.blocks[b].current_version, "heal", FALSE, t))],
              "returned", NoData, <<>>, 1, 0, 0)
  ELSE IF run = Starved
  THEN Result(st, StarvedRun, NoData, <<>>, 1, 0, 0)
  ELSE
    LET new_version == st.blocks[b].current_version + 1
        s1 == [st EXCEPT !.versions = Append(@, BlockVersion(b, new_version, gen))]
        ex == execute_block(s1, b, new_version, run)
        s2 == IF ex.ok
              THEN [ex.st EXCEPT
                      !.blocks[b].current_version = new_version,
                      !.blocks[b].status = "active",
                      !.blocks[b].updated_at = t,
                      !.logs = AddRow(@, ExecutionLog(b, new_version, "heal",
                                                      TRUE, t))]
              ELSE [ex.st EXCEPT
                      !.logs = AddRow(@, ExecutionLog(
                                  b, ex.st.blocks[b].current_version, "heal",
                                  FALSE, t))]
    IN Result(s2, "returned", NoData, <<run>>, 1, 0, 0)

\* heal_block whose oracle call is made outside the try block: the oracle's
\* exception reaches the caller and nothing is written
heal_block_OracleRaises(st, t, b, gen, run) ==
  IF ~BlockExists(st, b)
  THEN Result(st, "not_found", NoData, <<>>, 0, 0, 0)
  ELSE IF VersionRowIds(st, b, st.blocks[b].current_version) = {}
          \/ FailureLogs(st, b) = {}
  THEN Result(st, "precondition", NoData, <<>>, 0, 0, 0)
  ELSE IF gen = Starved
  THEN Result(st, StarvedGen, NoData, <<>>, 0, 0, 0)
  ELSE IF gen = OracleError
  THEN Result(st, "oracle_error", NoData, <<>>, 1, 0, 0)
  ELSE IF run = Starved
  THEN Result(st, StarvedRun, NoData, <<>>, 1, 0, 0)
  ELSE
    LET new_version == st.blocks[b].current_version + 1
        s1 == [st EXCEPT !.versions = Append(@, BlockVersion(b, new_version, gen))]
        ex == execute_block(s1, b, new_version, run)
        s2 == IF ex.ok
              THEN [ex.st EXCEPT
                      !.blocks[b].current_version = new_version,
                      !.blocks[b].status = "active",
                      !.blocks[b].updated_at = t,
                      !.logs = AddRow(@, ExecutionLog(b, new_version, "heal",
                                                      TRUE, t))]
              ELSE [ex.st EXCEPT
                      !.logs = AddRow(@, ExecutionLog(
                                  b, ex.st.blocks[b].current_version, "heal",
                                  FALSE, t))]
    IN Result(s2, "returned", NoData, <<run>>, 1, 0, 0)

\* BlockService.heal_block; gen and run may be Starved when the caller has no
\* more inputs to give, and the call then stops where it needed one
heal_block(st, t, b, gen, run) ==
  IF ~BlockExists(st, b)
  THEN Result(st, "not_found", NoData, <<>>, 0, 0, 0)
  ELSE IF VersionRowIds(st, b, st.blocks[b].current_version) = {}
          \/ FailureLogs(st, b) = {}
  THEN Result(st, "precondition", NoData, <<>>, 0, 0, 0)
  ELSE IF gen = Starved
  THEN Result(st, StarvedGen, NoData, <<>>, 0, 0, 0)
  ELSE IF gen = OracleError
  THEN Result([st EXCEPT !.logs = AddRow(@,
                 ExecutionLog(b, st.blocks[b].current_version, "heal", FALSE, t))],
              "returned", NoData, <<>>, 1, 0, 0)
  ELSE IF run = Starved
  THEN Result(st, StarvedRun, NoData, <<>>, 1, 0, 0)
  ELSE
    LET new_version == st.blocks[b].current_version + 1
        s1 == [st EXCEPT !.versions = Append(@, BlockVersion(b, new_version, gen))]
        ex == execute_block(s1, b, new_version, run)
        s2 == IF ex.ok
              THEN [ex.st EXCEPT
                      !.blocks[b].current_version = new_version,
                      !.blocks[b].status = "active",
                      !.blocks[b].updated_at = t,
                      !.logs = AddRow(@, ExecutionLog(b, new_version, "heal",
                                                      TRUE, t))]
              ELSE [ex.st EXCEPT
                      !.logs = AddRow(@, ExecutionLog(
                                  b, ex.st.blocks[b].current_version, "heal",
                                  FALSE, t))]
    IN Result(s2, "returned", NoData, <<run>>, 1, 0, 0)

Rest(seq, used) == SubSeq(seq, used + 1, Len(seq))

\* the one member of a singleton set
The(S) == CHOOSE x \in S : TRUE

\* BlockService.refresh_block_data; runs and gens are what the child
\* processes and the oracle do, in the order the call asks for them
RECURSIVE refresh_block_data(_, _, _, _, _)

\* refresh_block_data that lets the failure of the retried refresh reach the
\* caller in place of the first one
RetryAfterHeal_RaisesRetryError(st, t, b, runs, gens, h) ==
  IF IsStarved(h)
  THEN Result(st, h.outcome, NoData, <<>>, 0, 0, 0)
  ELSE IF h.outcome # "returned"
  THEN Result(h.st, "exec_error", NoData, <<runs[1]>>, 0, 1, 1)
  ELSE The({
    IF IsStarved(n)
    THEN Result(st, n.outcome, NoData, <<>>, 0, 0, 0)
    ELSE IF n.outcome = "returned"
    THEN Result(n.st, "returned", n.payload, <<runs[1]>> \o h.execs \o n.execs,
                h.gens + n.gens, 1 + n.heals, 0)
    ELSE Result(n.st, "exec_error", NoData, <<runs[1]>> \o h.execs \o n.execs,
                h.gens + n.gens, 1 + n.heals,
                Len(<<runs[1]>> \o h.execs \o n.execs))
    : n \in {refresh_block_data(h.st, t, b, Rest(runs, 1 + Len(h.execs)),
                                Rest(gens, h.gens))}})

\* refresh_block_data, lines 260-268: the heal h has been attempted after the
\* run runs[1] failed; the refresh is tried again and the first failure is
\* raised unless the second try returns data
RetryAfterHeal(st, t, b, runs, gens, h) ==
  IF IsStarved(h)
  THEN Result(st, h.outcome, NoData, <<>>, 0, 0, 0)
  ELSE IF h.outcome # "returned"
  THEN Result(h.st, "exec_error", NoData, <<runs[1]>>, 0, 1, 1)
  ELSE The({
    IF IsStarved(n)
    THEN Result(st, n.outcome, NoData, <<>>, 0, 0, 0)
    ELSE IF n.outcome = "returned"
    THEN Result(n.st, "returned", n.payload, <<runs[1]>> \o h.execs \o n.execs,
                h.gens + n.gens, 1 + n.heals, 0)
    ELSE Result(n.st, "exec_error", NoData, <<runs[1]>> \o h.execs \o n.execs,
                h.gens + n.gens, 1 + n.heals, 1)
    : n \in {refresh_block_data(h.st, t, b, Rest(runs, 1 + Len(h.execs)),
                                Rest(gens, h.gens))}})

\* refresh_block_data that counts the failures before it logs its own
RefreshFailed_CountsBeforeLog(st, s0, t, b, runs, gens) ==
  LET cv == st.blocks[b].current_version
      s1 == [s0 EXCEPT !.logs = AddRow(@, ExecutionLog(b, cv, "fetch", FALSE, t))]
      recent_errors == RecentErrors(s0, b, t)
  IN IF recent_errors <= 1
     THEN The({RetryAfterHeal(st, t, b, runs, gens, h) :
                 h \in {heal_block(s1, t, b, Nth(gens, 1), Nth(runs, 2))}})
     ELSE Result(s1, "exec_error", NoData, <<runs[1]>>, 0, 0, 1)

\* refresh_block_data that still heals at the second failure of the hour
RefreshFailed_LooseThrottle(st, s0, t, b, runs, gens) ==
  LET cv == st.blocks[b].current_version
      s1 == [s0 EXCEPT !.logs = AddRow(@, ExecutionLog(b, cv, "fetch", FALSE, t))]
      recent_errors == RecentErrors(s1, b, t)
  IN IF recent_errors <= 2
     THEN The({RetryAfterHeal(st, t, b, runs, gens, h) :
                 h \in {heal_block(s1, t, b, Nth(gens, 1), Nth(runs, 2))}})
     ELSE Result(s1, "exec_error", NoData, <<runs[1]>>, 0, 0, 1)

\* refresh_block_data, lines 241-268: the run runs[1] failed and left the
\* artifact tree of s0; the failure is logged and committed, then the throttle
\* decides whether to heal
RefreshFailed(st, s0, t, b, runs, gens) ==
  LET cv == st.blocks[b].current_version
      s1 == [s0 EXCEPT !.logs = AddRow(@, ExecutionLog(b, cv, "fetch", FALSE, t))]
      recent_errors == RecentErrors(s1, b, t)
  IN IF recent_errors <= 1
     THEN The({RetryAfterHeal(st, t, b, runs, gens, h) :
                 h \in {heal_block(s1, t, b, Nth(gens, 1), Nth(runs, 2))}})
     ELSE Result(s1, "exec_error", NoData, <<runs[1]>>, 0, 0, 1)

refresh_block_data(st, t, b, runs, gens) ==
  IF ~BlockExists(st, b)
  THEN Result(st, "not_found", NoData, <<>>, 0, 0, 0)
  ELSE IF VersionRowIds(st, b, st.blocks[b].current_version) = {}
  THEN Result(st, "no_version", NoData, <<>>, 0, 0, 0)
  ELSE IF Nth(runs, 1) = Starved
  THEN Result(st, StarvedRun, NoData, <<>>, 0, 0, 0)
  ELSE
    LET cv == st.blocks[b].current_version
        current_version == FirstVersion(st, b, cv)
        ex == execute_block(st, b, cv, runs[1])
    IN IF ex.ok
       THEN Result([ex.st EXCEPT
                      !.data = Append(@, BlockData(b, ex.payload, t,
                                  st.blocks[b].refresh_interval,
                                  current_version.backend_code)),
                      !.logs = AddRow(@, ExecutionLog(b, cv, "fetch", TRUE, t))],
                   "returned", ex.payload, <<runs[1]>>, 0, 0, 0)
       ELSE RefreshFailed(st, ex.st, t, b, runs, gens)

\* the cache query ordered by fetched_at ascending: first() is the oldest row
MostRecentData_Oldest(st, b) ==
  LET mine == {i \in 1..Len(st.data) : st.data[i].block_id = b}
  IN {i \in mine : \A j \in mine : st.data[i].fetched_at <= st.data[j].fetched_at}

\* api/blocks.py get_block_data: the rows order_by(fetched_at.desc()).first()
\* may return (rows fetched at the same time are in no defined order)
MostRecentData(st, b) ==
  LET mine == {i \in 1..Len(st.data) : st.data[i].block_id = b}
  IN {i \in mine : \A j \in mine : st.data[j].fetched_at <= st.data[i].fetched_at}

\* api/blocks.py get_block_data; pick is the row first() returned (0: none)
get_block_data(st, t, b, pick, runs, gens) ==
  IF pick = 0 \/ t > st.data[pick].expires_at
  THEN refresh_block_data(st, t, b, runs, gens)
  ELSE [Result(st, "returned", st.data[pick].data, <<>>, 0, 0, 0)
          EXCEPT !.cached = TRUE]

\* delete_block as a hard delete: the cached rows of the block go with it
delete_block_DropsCache(st, t, b) ==
  IF BlockExists(st, b)
  THEN Result([st EXCEPT
                 !.blocks[b].status = "deleted",
                 !.blocks[b].updated_at =
                   IF st.blocks[b].status = "deleted" THEN @ ELSE t,
                 !.data = SelectSeq(@, LAMBDA row : row.block_id # b)],
              "true", NoData, <<>>, 0, 0, 0)
  ELSE Result(st, "false", NoData, <<>>, 0, 0, 0)

\* BlockService.delete_block; the store stamps updated_at when the row changes
delete_block(st, t, b) ==
  IF BlockExists(st, b)
  THEN Result([st EXCEPT
                 !.blocks[b].status = "deleted",
                 !.blocks[b].updated_at =
                   IF st.blocks[b].status = "deleted" THEN @ ELSE t],
              "true", NoData, <<>>, 0, 0, 0)
  ELSE Result(st, "false", NoData, <<>>, 0, 0, 0)

\* BlockService.update_block_layout
update_block_layout(st, t, b, layout_data) ==
  IF BlockExists(st, b)
  THEN Result([st EXCEPT !.blocks[b].layout_data = layout_data,
                         !.blocks[b].updated_at = t],
              "true", NoData, <<>>, 0, 0, 0)
  ELSE Result(st, "false", NoData, <<>>, 0, 0, 0)

(* --------------------- what a call can do ------------------------------ *)
\* every way a refresh can go from st: the call is given one more input each
\* time it stops for want of one, until it reads its inputs to the end; a
\* call still asking after MaxRuns runs or MaxGens oracle calls is kept with
\* its starved outcome
RECURSIVE RefreshResults(_, _, _, _, _)
RefreshResults(st, t, b, runs, gens) ==
  LET r == refresh_block_data(st, t, b, runs, gens)
  IN IF r.outcome = StarvedRun /\ Len(runs) < MaxRuns
     THEN UNION {RefreshResults(st, t, b, Append(runs, x), gens) : x \in ExecResults}
     ELSE IF r.outcome = StarvedGen /\ Len(gens) < MaxGens
     THEN UNION {RefreshResults(st, t, b, runs, Append(gens, g)) : g \in OracleResults}
     ELSE {r}

\* the same for the cache-aware read, pick being the row its query returned
RECURSIVE GetDataResults(_, _, _, _, _, _)
GetDataResults(st, t, b, pick, runs, gens) ==
  LET r == get_block_data(st, t, b, pick, runs, gens)
  IN IF r.outcome = StarvedRun /\ Len(runs) < MaxRuns
     THEN UNION {GetDataResults(st, t, b, pick, Append(runs, x), gens) :
                   x \in ExecResults}
     ELSE IF r.outcome = StarvedGen /\ Len(gens) < MaxGens
     THEN UNION {GetDataResults(st, t, b, pick, runs, Append(gens, g)) :
                   g \in OracleResults}
     ELSE {r}

\* the rows the cache query of get_block_data can return (0: no row)
Picks(st, b) == IF MostRecentData(st, b) = {} THEN {0} ELSE MostRecentData(st, b)

(* ---------------------------- state machine --------------------------- *)
\* the store and the artifact tree as the operations see them
Store ==
  [blocks |-> blocks, versions |-> versions, logs |-> logs, data |-> data,
   dirs |-> dirs]

\* the calls that can be in flight together
MaxCalls == 2

\* no block object loaded into the session of a call
NoBlock ==
  [status |-> "none", current_version |-> 0, refresh_interval |-> 0,
   updated_at |-> 0]

\* the block object a session holds after its query: the columns of the row
\* that the operations with suspension points read or assign
Loaded(row) ==
  [status |-> row.status, current_version |-> row.current_version,
   refresh_interval |-> row.refresh_interval, updated_at |-> row.updated_at]

\* a call that has not started: nothing loaded, nothing pending.  op is the
\* operation called, frame the function that is waiting (a refresh waits in
\* heal_block while it heals), pc what it waits for; block is the block
\* object of its session as last loaded, new_version and backend_code the
\* version whose code it runs; runs and heals count the executor runs and
\* the automated heals it has started
IdleCall ==
  [op |-> "none", frame |-> "none", pc |-> "idle", block_id |-> 0,
   block |-> NoBlock, new_version |-> 0, backend_code |-> NoData,
   runs |-> 0, heals |-> 0, committed |-> FALSE, ok |-> FALSE]

(* ------------- the operations from suspension to suspension ----------- *)
\* what a call has done when it next waits or ends: the store as its commits
\* and its artifacts left it, the call, how it ended (Suspended while it
\* waits), the payload returned, whether it came from the cache, and how
\* many automated heals it started and failed refresh runs it logged in
\* this stretch
Suspended == "suspended"
Stretch(st, call, outcome, payload) ==
  [st |-> st, call |-> call, outcome |-> outcome, payload |-> payload,
   cached |-> FALSE, heals |-> 0, failed |-> 0]

\* the call has ended: it waits for nothing more
Ended(call) == [call EXCEPT !.pc = "done"]

\* ExecutionService.execute_block, lines 22-34: the version directory and the
\* wrapped code are written before the child is started
write_artifact(st, b, v) == [st EXCEPT !.dirs = @ \cup {<<b, v>>}]

\* update_block numbering the new version from the row as the store has it
\* when the oracle returns
NewVersion_FromStore(st, call) ==
  st.blocks[call.block_id].current_version + 1

\* update_block, line 95, heal_block, line 157: the number of the new
\* version, read from the block object the call's session loaded before the
\* oracle call
NewVersion(st, call) == call.block.current_version + 1

\* the commit of a session: the columns of the loaded row that the call
\* assigned a different value are written to the row of the store
WriteBack(row, loaded, assigned) ==
  [f \in DOMAIN row |->
     IF f \in DOMAIN loaded /\ assigned[f] # loaded[f] THEN assigned[f]
     ELSE row[f]]

\* create_block up to the oracle call, line 25: nothing is read or written
create_block_begin(st, t, interval) ==
  Stretch(st, [IdleCall EXCEPT !.op = "create", !.frame = "create",
                               !.pc = "oracle",
                               !.block = [NoBlock EXCEPT
                                            !.refresh_interval = interval]],
          Suspended, NoData)

\* create_block, lines 25-49: the oracle returns; its failure ends the call;
\* otherwise the block is flushed, which gives it its id and its defaults,
\* the first version is added to the session and the executor writes the
\* artifact and starts the child
create_block_generated(st, t, call, gen) ==
  IF gen = OracleError
  THEN Stretch(st, Ended(call), "oracle_error", NoData)
  ELSE LET id == Len(st.blocks) + 1
       IN Stretch(write_artifact(st, id, 1),
                  [call EXCEPT !.pc = "child", !.block_id = id,
                               !.block = Loaded(Block(call.block.refresh_interval, t)),
                               !.new_version = 1, !.backend_code = gen,
                               !.runs = 1],
                  Suspended, NoData)

\* create_block numbering the first version by the id of the block
create_block_executed_VersionFromId(st, t, call, run) ==
  LET id == call.block_id
      flushed == Block(call.block.refresh_interval, call.block.updated_at)
      row == IF run \in Payloads
             THEN flushed
             ELSE [flushed EXCEPT !.status = "error", !.updated_at = t]
      s1 == [st EXCEPT !.blocks = Append(@, row),
                       !.versions = Append(@, BlockVersion(id, id,
                                                          call.backend_code))]
      s2 == IF run \in Payloads
            THEN s1
            ELSE [s1 EXCEPT !.logs = AddRow(@, ExecutionLog(id, 1, "fetch",
                                                           FALSE, t))]
  IN Stretch(s2, [Ended(call) EXCEPT !.committed = TRUE,
                                     !.ok = run \in Payloads],
             "returned", NoData)

\* create_block, lines 49-65: the child ends; the status is assigned, the
\* failure logged, and the block, the version and the log are committed
create_block_executed(st, t, call, run) ==
  LET id == call.block_id
      flushed == Block(call.block.refresh_interval, call.block.updated_at)
      row == IF run \in Payloads
             THEN flushed
             ELSE [flushed EXCEPT !.status = "error", !.updated_at = t]
      s1 == [st EXCEPT !.blocks = Append(@, row),
                       !.versions = Append(@, BlockVersion(id, 1,
                                                          call.backend_code))]
      s2 == IF run \in Payloads
            THEN s1
            ELSE [s1 EXCEPT !.logs = AddRow(@, ExecutionLog(id, 1, "fetch",
                                                           FALSE, t))]
  IN Stretch(s2, [Ended(call) EXCEPT !.committed = TRUE,
                                     !.ok = run \in Payloads],
             "returned", NoData)

\* update_block up to the oracle call, lines 75-92: the block is loaded, or
\* the call ends with not found
update_block_begin(st, t, b) ==
  IF ~BlockExists(st, b)
  THEN Stretch(st, Ended([IdleCall EXCEPT !.op = "update", !.block_id = b]),
               "not_found", NoData)
  ELSE Stretch(st, [IdleCall EXCEPT !.op = "update", !.frame = "update",
                                    !.pc = "oracle", !.block_id = b,
                                    !.block = Loaded(st.blocks[b])],
               Suspended, NoData)

\* update_block, lines 92-107: the oracle returns; its failure ends the call;
\* otherwise the version row is added to the session and the executor writes
\* the artifact and starts the child
update_block_generated(st, t, call, gen) ==
  IF gen = OracleError
  THEN Stretch(st, Ended(call), "oracle_error", NoData)
  ELSE Stretch(write_artifact(st, call.block_id, NewVersion(st, call)),
               [call EXCEPT !.pc = "child",
                            !.new_version = NewVersion(st, call),
                            !.backend_code = gen, !.runs = 1],
               Suspended, NoData)

\* update_block committing its new row under the number of the version it
\* loaded
update_block_executed_StaleRow(st, t, call, run) ==
  LET b == call.block_id
      assigned ==
        IF run \in Payloads
        THEN [call.block EXCEPT !.current_version = call.new_version,
                                !.status = "active", !.updated_at = t]
        ELSE [call.block EXCEPT !.status = "error", !.updated_at = t]
      s1 == [st EXCEPT
               !.versions = Append(@, BlockVersion(b, call.block.current_version,
                                                   call.backend_code)),
               !.blocks[b] = WriteBack(@, call.block, assigned)]
      s2 == IF run \in Payloads
            THEN s1
            ELSE [s1 EXCEPT !.logs = AddRow(@, ExecutionLog(
                                       b, call.new_version, "fetch", FALSE, t))]
  IN Stretch(s2, [Ended(call) EXCEPT !.committed = TRUE,
                                     !.ok = run \in Payloads],
             "returned", NoData)

\* update_block, lines 107-125: the child ends; the block object is assigned
\* the outcome and the session commits the version row, the failure log and
\* the changed columns
update_block_executed(st, t, call, run) ==
  LET b == call.block_id
      assigned ==
        IF run \in Payloads
        THEN [call.block EXCEPT !.current_version = call.new_version,
                                !.status = "active", !.updated_at = t]
        ELSE [call.block EXCEPT !.status = "error", !.updated_at = t]
      s1 == [st EXCEPT
               !.versions = Append(@, BlockVersion(b, call.new_version,
                                                   call.backend_code)),
               !.blocks[b] = WriteBack(@, call.block, assigned)]
      s2 == IF run \in Payloads
            THEN s1
            ELSE [s1 EXCEPT !.logs = AddRow(@, ExecutionLog(
                                       b, call.new_version, "fetch", FALSE, t))]
  IN Stretch(s2, [Ended(call) EXCEPT !.committed = TRUE,
                                     !.ok = run \in Payloads],
             "returned", NoData)

\* an exception of heal_block or of the retried refresh inside
\* refresh_block_data, lines 260-268: the bare except swallows it and the
\* failure of the first run is raised
Caught(r) ==
  IF r.outcome \in {Suspended, "returned"}
  THEN r
  ELSE [r EXCEPT !.outcome = "exec_error"]

\* refresh_block_data up to its child, lines 201-215: the block and the row
\* of its current version are loaded and the executor writes the artifact
\* and starts the child; call is the call so far (a new one, or the refresh
\* that has healed and tries again)
refresh_block_data_begin(st, t, call, b) ==
  IF ~BlockExists(st, b)
  THEN Stretch(st, Ended([call EXCEPT !.block_id = b]), "not_found", NoData)
  ELSE IF VersionRowIds(st, b, st.blocks[b].current_version) = {}
  THEN Stretch(st, Ended([call EXCEPT !.block_id = b]), "no_version", NoData)
  ELSE LET cv == st.blocks[b].current_version
       IN Stretch(write_artifact(st, b, cv),
                  [call EXCEPT !.frame = "refresh", !.pc = "child",
                               !.block_id = b, !.block = Loaded(st.blocks[b]),
                               !.new_version = cv,
                               !.backend_code =
                                 FirstVersion(st, b, cv).backend_code,
                               !.runs = @ + 1],
                  Suspended, NoData)

\* heal_block up to the oracle call, lines 130-150: the block, the row of its
\* current version and its latest failure are loaded, or the call is rejected
heal_block_begin(st, t, call, b) ==
  IF ~BlockExists(st, b)
  THEN Stretch(st, Ended([call EXCEPT !.block_id = b]), "not_found", NoData)
  ELSE IF VersionRowIds(st, b, st.blocks[b].current_version) = {}
          \/ FailureLogs(st, b) = {}
  THEN Stretch(st, Ended([call EXCEPT !.block_id = b]), "precondition", NoData)
  ELSE Stretch(st, [call EXCEPT !.frame = "heal", !.pc = "oracle",
                                !.block_id = b, !.block = Loaded(st.blocks[b])],
               Suspended, NoData)

\* heal_block has committed and returned the block: a manual heal ends; a
\* refresh goes on to its retry (refresh_block_data, line 264) with the
\* block as the store has it
heal_block_returned(st, t, call) ==
  IF call.op = "heal"
  THEN Stretch(st, [Ended(call) EXCEPT !.committed = TRUE], "returned", NoData)
  ELSE Caught(refresh_block_data_begin(st, t, call, call.block_id))

\* heal_block, lines 150-168 and 183-196: the oracle returns; its failure is
\* logged against the loaded current version and committed; otherwise the
\* version row is added to the session and the executor writes the artifact
\* and starts the child
heal_block_generated(st, t, call, gen) ==
  IF gen = OracleError
  THEN heal_block_returned(
         [st EXCEPT !.logs = AddRow(@, ExecutionLog(
                       call.block_id, call.block.current_version, "heal",
                       FALSE, t))],
         t, call)
  ELSE Stretch(write_artifact(st, call.block_id, NewVersion(st, call)),
               [call EXCEPT !.pc = "child",
                            !.new_version = NewVersion(st, call),
                            !.backend_code = gen, !.runs = @ + 1],
               Suspended, NoData)

\* heal_block, lines 168-196: the child ends; on success the block object is
\* assigned the new version and the heal is logged, on failure the failed
\* heal is logged; the session commits
heal_block_executed(st, t, call, run) ==
  LET b == call.block_id
      assigned == [call.block EXCEPT !.current_version = call.new_version,
                                     !.status = "active", !.updated_at = t]
      s1 == [st EXCEPT !.versions = Append(@, BlockVersion(
                                      b, call.new_version, call.backend_code))]
      s2 == IF run \in Payloads
            THEN [s1 EXCEPT
                    !.blocks[b] = WriteBack(@, call.block, assigned),
                    !.logs = AddRow(@, ExecutionLog(b, call.new_version,
                                                    "heal", TRUE, t))]
            ELSE [s1 EXCEPT
                    !.logs = AddRow(@, ExecutionLog(
                                b, call.block.current_version, "heal",
                                FALSE, t))]
  IN heal_block_returned(s2, t, [call EXCEPT !.ok = run \in Payloads])

\* refresh_block_data, lines 215-268: the child ends; its payload is cached
\* and logged; its failure is logged and committed, and when it is the only
\* failure of the hour the heal is started
refresh_block_data_executed(st, t, call, run) ==
  LET b == call.block_id
      cv == call.block.current_version
  IN IF run \in Payloads
     THEN Stretch([st EXCEPT
                     !.data = Append(@, BlockData(b, run, t,
                                    call.block.refresh_interval,
                                    call.backend_code)),
                     !.logs = AddRow(@, ExecutionLog(b, cv, "fetch", TRUE, t))],
                  [Ended(call) EXCEPT !.committed = TRUE, !.ok = TRUE],
                  "returned", run)
     ELSE LET s1 == [st EXCEPT !.logs = AddRow(@, ExecutionLog(
                                           b, cv, "fetch", FALSE, t))]
              recent_errors == RecentErrors(s1, b, t)
          IN IF recent_errors <= 1
             THEN [Caught(heal_block_begin(
                     s1, t, [call EXCEPT !.heals = @ + 1], b))
                     EXCEPT !.heals = 1, !.failed = 1]
             ELSE [Stretch(s1, Ended(call), "exec_error", NoData)
                     EXCEPT !.failed = 1]

\* api/blocks.py get_block_data up to the first suspension; pick is the row
\* first() returned (0: none)
get_block_data_begin(st, t, b, pick) ==
  IF pick = 0 \/ t > st.data[pick].expires_at
  THEN refresh_block_data_begin(st, t, [IdleCall EXCEPT !.op = "getdata"], b)
  ELSE [Stretch(st, Ended([IdleCall EXCEPT !.op = "getdata", !.block_id = b]),
                "returned", st.data[pick].data)
          EXCEPT !.cached = TRUE]

\* the oracle answers the call: the function that asked goes on
generated(st, t, call, gen) ==
  IF call.frame = "create" THEN create_block_generated(st, t, call, gen)
  ELSE IF call.frame = "update" THEN update_block_generated(st, t, call, gen)
  ELSE heal_block_generated(st, t, call, gen)

\* the child of the call ends: the function that started it goes on
executed(st, t, call, run) ==
  IF call.frame = "create" THEN create_block_executed(st, t, call, run)
  ELSE IF call.frame = "update" THEN update_block_executed(st, t, call, run)
  ELSE IF call.frame = "heal" THEN heal_block_executed(st, t, call, run)
  ELSE refresh_block_data_executed(st, t, call, run)

\* what execute_block hands back: the parsed document, or the exception with
\* its message, the pieces of the message in the order they are joined
Returned(payload) == [ok |-> TRUE, payload |-> payload, message |-> <<>>]
Failure(message) == [ok |-> FALSE, payload |-> NoData, message |-> message]

\* what a pipe of the child delivered: text encoded in UTF-8, or bytes that
\* are no UTF-8
Utf8(text) == <<"utf8", text>>
InvalidBytes == <<"bytes", "ff">>

\* no call of the executor yet: no child, nothing read; holders counts the
\* processes besides the child that hold the write ends of its pipes, and
\* exited_in_time tells whether the child had exited when the call ended
IdleProcess ==
  [pc |-> "idle", block_id |-> 0, version |-> 0, spawned |-> 0,
   running |-> FALSE, holders |-> 0, timed_out |-> FALSE,
   exited_in_time |-> FALSE, returncode |-> 0,
   stdout |-> Utf8(""), stderr |-> Utf8(""), result |-> Failure(<<>>)]

\* _parse_generated_code: the result before the first line is read; a text
\* is the list of its lines, the empty string the empty list
NoSections == [backend_code |-> <<>>, frontend_code |-> <<>>, explanation |-> <<>>]

\* no answer of the oracle to parse
IdleResponse == [lines |-> <<>>, done |-> FALSE, result |-> NoSections]

\* no call of cleanup_old_versions: an empty tree under generated_code/blocks
IdleCleanup ==
  [entries |-> {}, block_id |-> 0, keep_versions |-> 0, done |-> FALSE,
   failed |-> {}, left |-> {}]

\* no import statement executed yet
IdleImport ==
  [name |-> <<>>, host |-> [found |-> 0, package |-> FALSE], done |-> FALSE,
   result |-> [ok |-> FALSE, module |-> <<>>, message |-> <<>>]]

\* block ids a caller may name: the existing ones and one that does not exist
BlockIdsOf(st) == 1..(Len(st.blocks) + 1)
BlockIds == BlockIdsOf(Store)

\* an empty database and artifact tree, no call in flight
InitStore ==
  /\ blocks = <<>>
  /\ versions = <<>>
  /\ logs = EmptyBag
  /\ data = <<>>
  /\ dirs = {}
  /\ now = 0
  /\ auto_heals = EmptyBag
  /\ refresh_failures = EmptyBag
  /\ calls = EmptyBag
  /\ process = IdleProcess

Init ==
  /\ InitStore
  /\ import_call = IdleImport
  /\ response = IdleResponse
  /\ cleanup = IdleCleanup

\* n more occurrences of x in the history bag
Noted(bag, x, n) == IF n = 0 THEN bag ELSE bag (+) [y \in {x} |-> n]

\* the bounds of a specification: the rows of each table and the calls in
\* flight it follows, the operations whose committed calls are kept as they
\* ended (keep) and whether the heals and failed runs of refreshes are
\* remembered (noted)
Limits(nblocks, nversions, nlogs, ndata, ncalls, keep, noted) ==
  [blocks |-> nblocks, versions |-> nversions, logs |-> nlogs, data |-> ndata,
   calls |-> ncalls, keep |-> keep, noted |-> noted]

Within(st, lim) ==
  /\ Len(st.blocks) <= lim.blocks
  /\ Len(st.versions) <= lim.versions
  /\ BagCardinality(st.logs) <= lim.logs
  /\ Len(st.data) <= lim.data

\* the calls that wait for the oracle or for a child
InFlight == {call \in BagToSet(calls) : call.pc \in {"oracle", "child"}}

\* how many of the calls in S there are, calls that stand alike counted each
HowMany(S) == BagCardinality([call \in S |-> CopiesIn(call, calls)])

\* one more call can start
Free(lim) == HowMany(InFlight) < lim.calls

\* the calls that wait in the function frame for the oracle or for a child
Waiting(frame, pc) ==
  {call \in BagToSet(calls) : call.frame = frame /\ call.pc = pc}

\* the creates between the flush of their block and their commit
Flushed == Waiting("create", "child")

\* the tables of the database
Rows(st) == <<st.blocks, st.versions, st.logs, st.data>>

\* the flush of create_block (line 35) opens the write transaction that its
\* commit (line 63) closes, and the database of core/config.py, a sqlite
\* file, has one writer at a time: the session of another call holds the
\* write transaction
Locked(call) == ~(Flushed \subseteq {call})

\* the stretch r of the call from the store st, as the database lets it end:
\* when it has rows to write (or, in create_block, a block to flush) while
\* the database is locked, the flush or commit raises, nothing of the stretch
\* is written and the call ends with that error; inside the heal or the
\* retry of a refresh the error is swallowed (refresh_block_data, line 265)
\* and the failure of the first run is raised
Refused(st, call, r, locked) ==
  IF /\ locked
     /\ \/ Rows(r.st) # Rows(st)
        \/ call.frame = "create" /\ call.pc = "oracle" /\ r.outcome = Suspended
  THEN Stretch(st, Ended(call),
               IF call.heals > 0 THEN "exec_error" ELSE "database_locked",
               NoData)
  ELSE r

\* the call has run the stretch r (a call that starts is IdleCall): the store
\* is the one it left, and the call waits where it stopped, or has ended
Took(call, r, lim) ==
  LET x == Refused(Store, call, r, Locked(call))
  IN /\ Within(x.st, lim)
     /\ blocks' = x.st.blocks
     /\ versions' = x.st.versions
     /\ logs' = x.st.logs
     /\ data' = x.st.data
     /\ dirs' = x.st.dirs
     /\ calls' = (IF call = IdleCall THEN calls ELSE calls (-) SetToBag({call}))
                 (+) (IF \/ x.outcome = Suspended
                         \/ x.call.committed /\ x.call.op \in lim.keep
                      THEN SetToBag({x.call}) ELSE EmptyBag)
     /\ auto_heals' = IF lim.noted
                      THEN Noted(auto_heals, <<x.call.block_id, now>>, x.heals)
                      ELSE auto_heals
     /\ refresh_failures' =
          IF lim.noted
          THEN Noted(refresh_failures, <<x.call.block_id, now>>, x.failed)
          ELSE refresh_failures
     /\ UNCHANGED <<now, aside>>

\* a call that waits for nothing has run: the store becomes the one it left,
\* or stays as it was when the database refused the commit
Commit(r) ==
  LET st == IF Locked(IdleCall) /\ Rows(r.st) # Rows(Store) THEN Store ELSE r.st
  IN /\ blocks' = st.blocks
     /\ versions' = st.versions
     /\ logs' = st.logs
     /\ data' = st.data
     /\ dirs' = st.dirs
     /\ UNCHANGED <<now, auto_heals, refresh_failures, calls, aside>>

\* POST /blocks/ is called; the blocks already there and the creates in
\* flight stay within the bound
CreateBegin(lim) ==
  /\ Len(blocks) + HowMany({call \in InFlight : call.op = "create"}) < lim.blocks
  /\ Free(lim)
  /\ \E interval \in Intervals :
       Took(IdleCall, create_block_begin(Store, now, interval), lim)

\* the oracle answers a create; the flush needs the write transaction
CreateGenerated(lim) ==
  \E call \in Waiting("create", "oracle"), gen \in OracleResults :
    Took(call, create_block_generated(Store, now, call, gen), lim)

\* the child of a create ends
CreateExecuted(lim) ==
  \E call \in Waiting("create", "child"), run \in ExecResults :
    Took(call, create_block_executed(Store, now, call, run), lim)

\* PUT /blocks/{id} is called
UpdateBegin(lim) ==
  /\ Free(lim)
  /\ \E b \in BlockIds :
       Took(IdleCall, update_block_begin(Store, now, b), lim)

\* the oracle answers an update
UpdateGenerated(lim) ==
  \E call \in Waiting("update", "oracle"), gen \in OracleResults :
    Took(call, update_block_generated(Store, now, call, gen), lim)

\* the child of an update ends
UpdateExecuted(lim) ==
  \E call \in Waiting("update", "child"), run \in ExecResults :
    Took(call, update_block_executed(Store, now, call, run), lim)

\* POST /blocks/{id}/heal is called
HealBegin(lim) ==
  /\ Free(lim)
  /\ \E b \in BlockIds :
       Took(IdleCall,
            heal_block_begin(Store, now, [IdleCall EXCEPT !.op = "heal"], b), lim)

\* the oracle answers a heal, called by hand or started by a refresh
HealGenerated(lim) ==
  \E call \in Waiting("heal", "oracle"), gen \in OracleResults :
    Took(call, heal_block_generated(Store, now, call, gen), lim)

\* the child of a heal ends
HealExecuted(lim) ==
  \E call \in Waiting("heal", "child"), run \in ExecResults :
    Took(call, heal_block_executed(Store, now, call, run), lim)

\* POST /blocks/{id}/refresh is called
RefreshBegin(lim) ==
  /\ Free(lim)
  /\ \E b \in BlockIds :
       Took(IdleCall, refresh_block_data_begin(
                        Store, now, [IdleCall EXCEPT !.op = "refresh"], b), lim)

\* the child of a refresh ends, be it the first run of a RefreshData or of a
\* GetData or the run of the retry
RefreshExecuted(lim) ==
  \E call \in Waiting("refresh", "child"), run \in ExecResults :
    Took(call, refresh_block_data_executed(Store, now, call, run), lim)

\* GET /blocks/{id}/data is called
GetDataBegin(lim) ==
  /\ Free(lim)
  /\ \E b \in BlockIds :
       \E pick \in Picks(Store, b) :
         Took(IdleCall, get_block_data_begin(Store, now, b, pick), lim)

\* delete_block and update_block_layout wait for nothing: each is one step
Delete ==
  \E b \in BlockIds : Commit(delete_block(Store, now, b))

UpdateLayout ==
  \E b \in BlockIds, layout_data \in Layouts :
    Commit(update_block_layout(Store, now, b, layout_data))

SpecLimits ==
  Limits(MaxBlocks, MaxVersions, MaxLogs, MaxData, MaxCalls, {}, FALSE)

Next ==
  \/ CreateBegin(SpecLimits)
  \/ CreateGenerated(SpecLimits)
  \/ CreateExecuted(SpecLimits)
  \/ UpdateBegin(SpecLimits)
  \/ UpdateGenerated(SpecLimits)
  \/ UpdateExecuted(SpecLimits)
  \/ HealBegin(SpecLimits)
  \/ HealGenerated(SpecLimits)
  \/ HealExecuted(SpecLimits)
  \/ RefreshBegin(SpecLimits)
  \/ RefreshExecuted(SpecLimits)
  \/ GetDataBegin(SpecLimits)
  \/ Delete
  \/ UpdateLayout

\* the lifecycle operations called on one block in any order, each followed
\* from one suspension point to the next and interleaved with the others
\* there, with any answers of the oracle and the child processes, within one
\* hour
Spec == Init /\ [][Next]_vars

(* ------------------------- one call at a time -------------------------- *)
\* bounds of the specifications that follow two blocks
PairBlocks == 2
PairLogs == 2

\* no writer beside the call in flight: a call starts when the one before it
\* has ended
SeqLimits == Limits(PairBlocks, MaxVersions, MaxLogs, MaxData, 1, {}, FALSE)

NextSeq ==
  \/ CreateBegin(SeqLimits)
  \/ CreateGenerated(SeqLimits)
  \/ CreateExecuted(SeqLimits)
  \/ UpdateBegin(SeqLimits)
  \/ UpdateGenerated(SeqLimits)
  \/ UpdateExecuted(SeqLimits)
  \/ HealBegin(SeqLimits)
  \/ HealGenerated(SeqLimits)
  \/ HealExecuted(SeqLimits)
  \/ RefreshBegin(SeqLimits)
  \/ RefreshExecuted(SeqLimits)
  \/ GetDataBegin(SeqLimits)
  \/ InFlight = {} /\ Delete
  \/ InFlight = {} /\ UpdateLayout

\* the lifecycle operations on two blocks, absent concurrent writers
SpecSeq == Init /\ [][NextSeq]_vars

(* ------------------------------ two blocks ----------------------------- *)
PairLimits == Limits(PairBlocks, MaxVersions, PairLogs, MaxData, MaxCalls, {}, FALSE)

NextPair ==
  \/ CreateBegin(PairLimits)
  \/ CreateGenerated(PairLimits)
  \/ CreateExecuted(PairLimits)
  \/ UpdateBegin(PairLimits)
  \/ UpdateGenerated(PairLimits)
  \/ UpdateExecuted(PairLimits)
  \/ HealBegin(PairLimits)
  \/ HealGenerated(PairLimits)
  \/ HealExecuted(PairLimits)
  \/ RefreshBegin(PairLimits)
  \/ RefreshExecuted(PairLimits)
  \/ GetDataBegin(PairLimits)
  \/ Delete

\* calls on two blocks, interleaved at their suspension points; the layout,
\* which no operation reads, stays as the blocks were created with
SpecPair == Init /\ [][NextPair]_vars

(* ------------------------ the same, with a clock ---------------------- *)
\* bounds of the timed specification: one block and one call in flight,
\* followed over MaxTime ticks
ClockBlocks == 1
ClockVersions == 2
ClockLogs == 4
ClockData == 2
ClockCalls == 1
MaxTime == 3

ClockLimits ==
  Limits(ClockBlocks, ClockVersions, ClockLogs, ClockData, ClockCalls, {}, TRUE)

\* half an hour has passed, last being the last tick followed; the calls in
\* flight go on waiting: nothing bounds the time the oracle takes to answer
\* (ai_service.py lines 22 and 62 set no timeout)
Tick(last) ==
  /\ now < last
  /\ now' = now + 1
  /\ UNCHANGED <<blocks, versions, logs, data, dirs, auto_heals,
                 refresh_failures, calls, aside>>

NextClock ==
  \/ CreateBegin(ClockLimits)
  \/ CreateGenerated(ClockLimits)
  \/ CreateExecuted(ClockLimits)
  \/ UpdateBegin(ClockLimits)
  \/ UpdateGenerated(ClockLimits)
  \/ UpdateExecuted(ClockLimits)
  \/ HealBegin(ClockLimits)
  \/ HealGenerated(ClockLimits)
  \/ HealExecuted(ClockLimits)
  \/ RefreshBegin(ClockLimits)
  \/ RefreshExecuted(ClockLimits)
  \/ GetDataBegin(ClockLimits)
  \/ Tick(MaxTime)

\* the calls that run code, on one block over time
SpecClock == Init /\ [][NextClock]_vars

(* ------------------- calls in flight together, over time -------------- *)
\* bounds of the specification of the throttle: one block, the calls of
\* MaxCalls in flight together, followed over ThrottleTime ticks
ThrottleLogs == 3
ThrottleTime == 2

ThrottleLimits ==
  Limits(ClockBlocks, ClockVersions, ThrottleLogs, MaxData, MaxCalls, {}, TRUE)

NextThrottle ==
  \/ CreateBegin(ThrottleLimits)
  \/ CreateGenerated(ThrottleLimits)
  \/ CreateExecuted(ThrottleLimits)
  \/ UpdateBegin(ThrottleLimits)
  \/ UpdateGenerated(ThrottleLimits)
  \/ UpdateExecuted(ThrottleLimits)
  \/ HealBegin(ThrottleLimits)
  \/ HealGenerated(ThrottleLimits)
  \/ HealExecuted(ThrottleLimits)
  \/ RefreshBegin(ThrottleLimits)
  \/ RefreshExecuted(ThrottleLimits)
  \/ GetDataBegin(ThrottleLimits)
  \/ Tick(ThrottleTime)

\* refreshes, reads, updates and heals of one block interleaved while time
\* passes
SpecThrottle == Init /\ [][NextThrottle]_vars

(* --------------------- metadata calls, with a clock ------------------- *)
\* one block is created, refreshed, deleted and laid out while time passes
MetaLimits ==
  Limits(ClockBlocks, MaxVersions, MaxLogs, MaxData, ClockCalls, {}, FALSE)

NextMeta ==
  \/ CreateBegin(MetaLimits)
  \/ CreateGenerated(MetaLimits)
  \/ CreateExecuted(MetaLimits)
  \/ RefreshBegin(MetaLimits)
  \/ RefreshExecuted(MetaLimits)
  \/ HealGenerated(MetaLimits)
  \/ HealExecuted(MetaLimits)
  \/ Delete
  \/ UpdateLayout
  \/ Tick(MaxTime)

SpecMeta == Init /\ [][NextMeta]_vars

(* ------------------- updates that end where they ended ---------------- *)
\* the updates that committed stay as they ended, so that what each loaded
\* and committed can be compared afterwards
ConcLimits ==
  Limits(ClockBlocks, MaxVersions, MaxLogs, MaxData, MaxCalls, {"update"}, FALSE)

NextConc ==
  \/ CreateBegin(ConcLimits)
  \/ CreateGenerated(ConcLimits)
  \/ CreateExecuted(ConcLimits)
  \/ UpdateBegin(ConcLimits)
  \/ UpdateGenerated(ConcLimits)
  \/ UpdateExecuted(ConcLimits)

\* updates of one block, interleaved at their suspension points
SpecConc == Init /\ [][NextConc]_vars

(* ------------------ one call of the executor, step by step ------------ *)
\* the versions a call of the executor may be given
MaxExecVersions == 2

\* the documents the children print, with the value json.loads gives each
Documents == {<<"\"p1\"", "p1">>, <<"\"p2\"", "p2">>}
IsJson(text) == \E d \in Documents : d[1] = text
loads(text) == The({d[2] : d \in {x \in Documents : x[1] = text}})

\* bytes.decode(): the text of the bytes, defined when they are UTF-8
Decodable(bytes) == bytes[1] = "utf8"
decode(bytes) == bytes[2]

\* what the children may write and how they may exit
Stdouts == {Utf8(d[1]) : d \in Documents} \cup {Utf8("Traceback"), Utf8(""),
                                                InvalidBytes}
Stderrs == {Utf8(""), Utf8("Traceback"), InvalidBytes}
ReturnCodes == {0, 1}

\* str() of the UnicodeDecodeError that decode() raises on InvalidBytes
CodecError ==
  "'utf-8' codec can't decode byte 0xff in position 0: invalid start byte"

\* asyncio.wait_for gave up after the 30 seconds
TimedOutFailure == Failure(<<"Block execution timed out">>)

\* execute_block reading the output of the child whatever its exit code
ExecutionOutcome_IgnoresReturnCode(returncode, stdout, stderr) ==
  IF ~Decodable(stdout)
  THEN Failure(<<"Execution error: ", CodecError>>)
  ELSE IF IsJson(decode(stdout))
  THEN Returned(loads(decode(stdout)))
  ELSE Failure(<<"Execution error: ", "Block did not return valid JSON">>)

\* execute_block, lines 50-64: communicate() has returned the exit code and
\* the bytes of both pipes; every exception raised on the way is raised
\* again by the last handler under "Execution error: "
ExecutionOutcome(returncode, stdout, stderr) ==
  IF returncode # 0
  THEN IF stderr = Utf8("")
       THEN Failure(<<"Execution error: ", "Block execution failed: ",
                      "Unknown execution error">>)
       ELSE IF ~Decodable(stderr)
       THEN Failure(<<"Execution error: ", CodecError>>)
       ELSE Failure(<<"Execution error: ", "Block execution failed: ",
                      decode(stderr)>>)
  ELSE IF ~Decodable(stdout)
  THEN Failure(<<"Execution error: ", CodecError>>)
  ELSE IF IsJson(decode(stdout))
  THEN Returned(loads(decode(stdout)))
  ELSE Failure(<<"Execution error: ", "Block did not return valid JSON">>)

\* execute_block, lines 22-43: the version directory and its two files are
\* written and the child is started
ExecCall(b, v) ==
  /\ process.pc = "idle"
  /\ dirs' = dirs \cup {<<b, v>>}
  /\ process' = [IdleProcess EXCEPT !.pc = "wait", !.block_id = b, !.version = v,
                                    !.spawned = process.spawned + 1,
                                    !.running = TRUE]
  /\ UNCHANGED <<blocks, versions, logs, data, now, auto_heals, refresh_failures,
                 calls, import_call, response, cleanup>>

\* the running child starts a process of its own, which inherits the write
\* ends of the two pipes
Forked ==
  /\ process.running
  /\ process.holders = 0
  /\ process' = [process EXCEPT !.holders = 1]
  /\ UNCHANGED <<blocks, versions, logs, data, dirs, now, auto_heals,
                 refresh_failures, calls, import_call, response, cleanup>>

\* the child ends on its own, with an exit code and what it wrote
ChildExits(returncode, stdout, stderr) ==
  /\ process.running
  /\ process' = [process EXCEPT !.running = FALSE, !.returncode = returncode,
                                !.stdout = stdout, !.stderr = stderr]
  /\ UNCHANGED <<blocks, versions, logs, data, dirs, now, auto_heals,
                 refresh_failures, calls, import_call, response, cleanup>>

\* the process that the child started ends and closes the pipes it held
HolderExits ==
  /\ process.holders > 0
  /\ process' = [process EXCEPT !.holders = 0]
  /\ UNCHANGED <<blocks, versions, logs, data, dirs, now, auto_heals,
                 refresh_failures, calls, import_call, response, cleanup>>

\* communicate() (line 46) returns when both pipes are at their end and the
\* child has exited
PipesAtEnd == ~process.running /\ process.holders = 0

\* execute_block, lines 45-59: communicate() returned within the 30 seconds
Communicated ==
  /\ process.pc = "wait"
  /\ PipesAtEnd
  /\ process' = [process EXCEPT
                   !.pc = "done", !.exited_in_time = TRUE,
                   !.result = ExecutionOutcome(process.returncode, process.stdout,
                                               process.stderr)]
  /\ UNCHANGED <<blocks, versions, logs, data, dirs, now, auto_heals,
                 refresh_failures, calls, import_call, response, cleanup>>

\* execute_block, lines 45-48 and 61-62: the 30 seconds pass before the event
\* loop has resumed the call with what communicate() read, be it that the
\* child runs, that another process holds its pipes, or that the loop is
\* late; wait_for cancels communicate() and the failure is raised, nothing
\* is done to the child
TimedOut ==
  /\ process.pc = "wait"
  /\ process' = [process EXCEPT !.pc = "done", !.timed_out = TRUE,
                                !.exited_in_time = ~process.running,
                                !.result = TimedOutFailure]
  /\ UNCHANGED <<blocks, versions, logs, data, dirs, now, auto_heals,
                 refresh_failures, calls, import_call, response, cleanup>>

Called == \E b \in 1..MaxBlocks, v \in 1..MaxExecVersions : ExecCall(b, v)
Exited ==
  \E returncode \in ReturnCodes, stdout \in Stdouts, stderr \in Stderrs :
    ChildExits(returncode, stdout, stderr)

NextExec ==
  \/ Called
  \/ Forked
  \/ Exited
  \/ HolderExits
  \/ Communicated
  \/ TimedOut

\* one call of the executor and its child process
SpecExec == Init /\ [][NextExec]_vars

(* ------------------- an import statement inside the child ------------- *)
\* _wrap_code: the names the wrapper lists as allowed
ALLOWED_PACKAGES ==
  {"requests", "httpx", "beautifulsoup4", "bs4", "pandas", "numpy",
   "dateutil", "jmespath", "json", "datetime", "time", "urllib", "re",
   "math", "statistics", "collections", "itertools", "functools",
   "typing", "asyncio", "aiohttp"}

\* top-level names the generated code may ask for besides those
OtherPackages == {"os", "subprocess", "socket", "shutil"}
UnderscorePackages == {"_thread"}
BaseNames == ALLOWED_PACKAGES \cup OtherPackages \cup UnderscorePackages

\* a dotted module name, as the list of its components
ModuleNames == {<<base>> : base \in BaseNames}
               \cup {<<base, "sub">> : base \in BaseNames}

\* base_name.startswith('_')
startswith_underscore(base_name) == base_name \in UnderscorePackages

\* the modules of the standard library among the names: every host has them;
\* the plain ones are single files, the others packages (re is a package
\* from Python 3.11 on and a single file before)
PlainModules ==
  {"datetime", "time", "math", "statistics", "itertools", "functools",
   "typing", "os", "subprocess", "socket", "shutil", "_thread"}
StandardLibrary ==
  PlainModules \cup {"json", "urllib", "collections", "asyncio", "re"}

\* what a host has of a dotted name: how many of its leading components it
\* finds, and whether the top-level module is a package
Hosts(name) ==
  {h \in [found : 0..Len(name), package : BOOLEAN] :
     /\ name[1] \in StandardLibrary => h.found >= 1
     /\ name[1] \in PlainModules => ~h.package
     /\ name[1] \notin PlainModules \cup {"re"} => h.package
     /\ h.found > 1 => h.package}

\* the builtin __import__: the module, or the ModuleNotFoundError of the
\* first component the host does not find: a missing top-level module is
\* named alone, a missing submodule by the dotted name, with a remark when
\* the module above it is no package
original_import(name, host) ==
  IF host.found = Len(name)
  THEN [ok |-> TRUE, module |-> name, message |-> <<>>]
  ELSE [ok |-> FALSE, module |-> <<>>,
        message |->
          IF host.found = 0 THEN <<"No module named '", name[1], "'">>
          ELSE IF host.package THEN <<"No module named '", name, "'">>
          ELSE <<"No module named '", name, "'; '", name[1],
                 "' is not a package">>]

\* _wrap_code: restricted_import; name.split('.')[0] is the first component
restricted_import(name, host) ==
  LET base_name == name[1]
  IN IF base_name \notin ALLOWED_PACKAGES /\ ~startswith_underscore(base_name)
     THEN IF original_import(name, host).ok
          THEN original_import(name, host)
          ELSE [ok |-> FALSE, module |-> <<>>,
                message |-> <<"Package '", name, "' is not allowed">>]
     ELSE original_import(name, host)

\* the generated code is about to import a module that its host has, has in
\* part or has not
InitImport ==
  /\ InitStore
  /\ \E name \in ModuleNames :
       \E host \in Hosts(name) :
         import_call = [IdleImport EXCEPT !.name = name, !.host = host]
  /\ response = IdleResponse
  /\ cleanup = IdleCleanup

\* the import statement runs through the replaced __import__
Import ==
  /\ ~import_call.done
  /\ import_call' = [import_call EXCEPT
                       !.done = TRUE,
                       !.result = restricted_import(import_call.name,
                                                    import_call.host)]
  /\ UNCHANGED <<blocks, versions, logs, data, dirs, now, auto_heals,
                 refresh_failures, calls, process, response, cleanup>>

SpecImport == InitImport /\ [][Import]_vars

(* ------------------- many versions of one block ----------------------- *)
\* cleanup_old_versions: the default of keep_versions
keep_versions == 5

\* bounds of the specification of retention: one block, followed until it
\* has RetainVersions version rows
RetainVersions == 7
RetainLogs == 2

RetainLimits ==
  Limits(ClockBlocks, RetainVersions, RetainLogs, MaxData, ClockCalls, {}, FALSE)

NextRetain ==
  \/ CreateBegin(RetainLimits)
  \/ CreateGenerated(RetainLimits)
  \/ CreateExecuted(RetainLimits)
  \/ UpdateBegin(RetainLimits)
  \/ UpdateGenerated(RetainLimits)
  \/ UpdateExecuted(RetainLimits)
  \/ HealBegin(RetainLimits)
  \/ HealGenerated(RetainLimits)
  \/ HealExecuted(RetainLimits)

\* one block, updated and healed again and again
SpecRetain == Init /\ [][NextRetain]_vars

(* ------------------- the parser of the oracle's answer ---------------- *)
\* the longest answer, in lines
MaxLines == 4

\* a line of three backquotes, which opens or closes a code body
Fence == "<three backquotes>"

\* the lines an answer is made of: the three headings (one with the trailing
\* blanks of the healing prompt), a fence, a line of text and an empty line
Lines == {"## Backend Code", "## Frontend Code  ", "## Explanation", Fence,
          "text", ""}

\* line.strip()
strip(line) == IF line = "## Frontend Code  " THEN "## Frontend Code" ELSE line

\* line.strip().startswith(three backquotes)
startswith_fence(line) == strip(line) = Fence

\* '\n'.join(current_code): the text with these lines; one empty line is the
\* empty string
join(current_code) == IF current_code = <<"">> THEN <<>> ELSE current_code

\* text.strip(): the text without its leading and trailing empty lines
RECURSIVE strip_text(_)
strip_text(text) ==
  IF text = <<>> THEN <<>>
  ELSE IF Head(text) = "" THEN strip_text(Tail(text))
  ELSE IF text[Len(text)] = "" THEN strip_text(SubSeq(text, 1, Len(text) - 1))
  ELSE text

\* _parse_generated_code, lines 196-217: one turn of the loop
ParseLine(p, line) ==
  IF strip(line) = "## Backend Code"
  THEN [p EXCEPT !.current_section = "backend", !.current_code = <<>>]
  ELSE IF strip(line) = "## Frontend Code"
  THEN [p EXCEPT !.current_section = "frontend", !.current_code = <<>>]
  ELSE IF strip(line) = "## Explanation"
  THEN [p EXCEPT !.current_section = "explanation", !.current_code = <<>>]
  ELSE IF startswith_fence(line)
  THEN IF p.current_code # <<>> /\ p.current_section = "backend"
       THEN [p EXCEPT !.result.backend_code = join(p.current_code),
                      !.current_code = <<>>]
       ELSE IF p.current_code # <<>> /\ p.current_section = "frontend"
       THEN [p EXCEPT !.result.frontend_code = join(p.current_code),
                      !.current_code = <<>>]
       ELSE [p EXCEPT !.current_code = <<>>]
  ELSE IF p.current_section # "none"
  THEN [p EXCEPT !.current_code = Append(@, line)]
  ELSE p

\* the loop over the first n lines
RECURSIVE ParseLines(_, _)
ParseLines(lines, n) ==
  IF n = 0
  THEN [current_section |-> "none", current_code |-> <<>>, result |-> NoSections]
  ELSE ParseLine(ParseLines(lines, n - 1), lines[n])

\* AIService._parse_generated_code
parse_generated_code(lines) ==
  LET p == ParseLines(lines, Len(lines))
  IN IF p.current_section = "explanation" /\ p.current_code # <<>>
     THEN [p.result EXCEPT !.explanation = strip_text(join(p.current_code))]
     ELSE p.result

\* the answers of at most n lines
RECURSIVE Answers(_)
Answers(n) ==
  IF n = 0 THEN {<<>>}
  ELSE Answers(n - 1) \cup {Append(a, l) : a \in Answers(n - 1), l \in Lines}

\* the oracle has answered
InitParse ==
  /\ InitStore
  /\ import_call = IdleImport
  /\ \E lines \in Answers(MaxLines) :
       response = [IdleResponse EXCEPT !.lines = lines]
  /\ cleanup = IdleCleanup

\* the answer is parsed
Parse ==
  /\ ~response.done
  /\ response' = [response EXCEPT !.done = TRUE,
                                  !.result = parse_generated_code(response.lines)]
  /\ UNCHANGED <<blocks, versions, logs, data, dirs, now, auto_heals,
                 refresh_failures, calls, process, import_call, cleanup>>

SpecParse == InitParse /\ [][Parse]_vars

(* ------------------- retention of version directories ----------------- *)
\* the largest keep_versions a call is given
MaxKeep == 2

\* the entries a block directory may hold, in the order of their names as
\* strings
EntryNames == <<"notes", "v02", "v1", "v10", "v2", "v3", "v9", "vx">>
Names == {EntryNames[i] : i \in 1..Len(EntryNames)}

\* the position of a name in the order of strings
LexRank(name) == The({i \in 1..Len(EntryNames) : EntryNames[i] = name})

\* item.startswith("v")
startswith_v(item) == item # "notes"

\* os.path.isdir: v3 is a regular file, the others are directories
isdir(item) == item # "v3"

\* int(item[1:]) of the names it accepts; on vx it raises ValueError
Numbers ==
  {<<"v02", 2>>, <<"v1", 1>>, <<"v10", 10>>, <<"v2", 2>>, <<"v3", 3>>, <<"v9", 9>>}
IsNumbered(item) == \E n \in Numbers : n[1] = item
int(item) == The({n[2] : n \in {x \in Numbers : x[1] = item}})

\* cleanup_old_versions, lines 157-165: the (version_num, item) pairs of the
\* block directory
version_dirs(entries, block_id) ==
  {<<int(e[2]), e[2]>> :
     e \in {x \in entries : /\ x[1] = block_id
                            /\ startswith_v(x[2]) /\ isdir(x[2])
                            /\ IsNumbered(x[2])}}

\* version_dirs.sort(reverse=True): x comes before y
SortedBefore(x, y) ==
  x[1] > y[1] \/ (x[1] = y[1] /\ LexRank(x[2]) > LexRank(y[2]))

\* version_dirs[keep_versions:] after the sort
to_remove(entries, block_id, keep) ==
  LET dirs_of == version_dirs(entries, block_id)
  IN {x \in dirs_of : Cardinality({y \in dirs_of : SortedBefore(y, x)}) >= keep}

\* cleanup_old_versions sorting the directories by their names
cleanup_old_versions_ByName(entries, block_id, keep, failing) ==
  LET dirs_of == version_dirs(entries, block_id)
      last == {x \in dirs_of :
                 Cardinality({y \in dirs_of : LexRank(y[2]) > LexRank(x[2])})
                   >= keep}
  IN entries \ {<<block_id, x[2]>> : x \in {y \in last : y[2] \notin failing}}

\* ExecutionService.cleanup_old_versions: the tree it leaves; failing are the
\* directories that shutil.rmtree cannot delete
cleanup_old_versions(entries, block_id, keep, failing) ==
  entries \ {<<block_id, x[2]>> :
               x \in {y \in to_remove(entries, block_id, keep) :
                        y[2] \notin failing}}

\* the trees: any entries for block 1, one version or none for block 2
Trees ==
  {one \cup two : one \in SUBSET ({1} \X Names), two \in SUBSET {<<2, "v1">>}}

\* the directories whose deletion may fail
Undeletable == SUBSET {"v1", "v02"}

\* a tree of artifacts and a call of the retention routine about to be made
InitCleanup ==
  /\ InitStore
  /\ import_call = IdleImport
  /\ response = IdleResponse
  /\ \E entries \in Trees, block_id \in 1..2, keep \in 0..MaxKeep :
       cleanup = [IdleCleanup EXCEPT !.entries = entries, !.block_id = block_id,
                                     !.keep_versions = keep, !.left = entries]

Cleanup ==
  /\ ~cleanup.done
  /\ \E failing \in Undeletable :
       cleanup' = [cleanup EXCEPT
                     !.done = TRUE,
                     !.failed = failing,
                     !.left = cleanup_old_versions(cleanup.entries,
                                cleanup.block_id, cleanup.keep_versions, failing)]
  /\ UNCHANGED <<blocks, versions, logs, data, dirs, now, auto_heals,
                 refresh_failures, calls, process, import_call, response>>

SpecCleanup == InitCleanup /\ [][Cleanup]_vars

(* ------------------------- vocabulary of the claims ------------------- *)
\* the blocks that exist in the store
Existing == 1..Len(blocks)

\* no call is between its start and its end: a call that starts now and is
\* given the store until it ends runs as the operators of the whole calls say
Quiet == InFlight = {}

\* the version rows of block b, as row ids (creation order)
VersionRowsOf(st, b) == {i \in 1..Len(st.versions) : st.versions[i].block_id = b}

\* st2 has exactly the log rows of st1 and one more, row
OneMoreLog(st1, st2, row) ==
  /\ BagCardinality(st2.logs) = BagCardinality(st1.logs) + 1
  /\ CopiesIn(row, st2.logs) = CopiesIn(row, st1.logs) + 1

\* st2 has exactly the version rows of st1 and one more, for block b with
\* number v
OneMoreVersion(st1, st2, b, v) ==
  /\ Len(st2.versions) = Len(st1.versions) + 1
  /\ SubSeq(st2.versions, 1, Len(st1.versions)) = st1.versions
  /\ st2.versions[Len(st2.versions)].block_id = b
  /\ st2.versions[Len(st2.versions)].version = v

\* the oracle returned code and the child succeeded / failed
Succeeded(run) == run \in Payloads

\* C1: every persisted block has a version row of its own whose number is the
\* block's current_version
C1_CurrentVersionExists ==
  \A b \in Existing : VersionRowIds(Store, b, blocks[b].current_version) # {}

\* C1 witness: a block whose pointer an update or a heal has advanced to 2
\* while another call that had loaded it at 1 was still in flight
C1_Witness ==
  \E b \in Existing :
    /\ blocks[b].current_version = 2
    /\ VersionRowIds(Store, b, 2) # {}
    /\ \E call \in InFlight :
         call.block_id = b /\ call.block.current_version = 1

\* block c's pointer is the same in the store a call left as before the call
SamePointer(r, c) ==
  r.st.blocks[c].current_version = blocks[c].current_version

\* the refresh r healed the block: its first run failed, the oracle answered
\* and the validation run of the healed version succeeded
HealedInRefresh(r) ==
  /\ r.heals = 1
  /\ r.gens = 1
  /\ Len(r.execs) >= 2
  /\ ~Succeeded(r.execs[1])
  /\ Succeeded(r.execs[2])

\* no current version is flagged failed, and a call of Create, Update, Heal,
\* RefreshData, Delete or UpdateLayout that runs with no other call in between
\* moves the pointer of a block only when it is an Update or Heal of that
\* block whose run succeeded, or a RefreshData of that block whose nested heal
\* succeeded
PointerMovesOnlyOnSuccess ==
  /\ \A c \in Existing :
       \A i \in VersionRowIds(Store, c, blocks[c].current_version) :
         versions[i].status # "failed"
  /\ Quiet =>
       \A c \in Existing, b \in BlockIds :
         /\ \A interval \in Intervals, gen \in OracleResults, run \in ExecResults :
              SamePointer(create_block(Store, now, interval, gen, run), c)
         /\ \A gen \in OracleResults, run \in ExecResults :
              /\ \/ SamePointer(update_block(Store, now, b, gen, run), c)
                 \/ b = c /\ gen \in Codes /\ Succeeded(run)
              /\ \/ SamePointer(heal_block(Store, now, b, gen, run), c)
                 \/ b = c /\ gen \in Codes /\ Succeeded(run)
         /\ \A r \in RefreshResults(Store, now, b, <<>>, <<>>) :
              SamePointer(r, c) \/ (b = c /\ HealedInRefresh(r))
         /\ SamePointer(delete_block(Store, now, b), c)
         /\ \A layout_data \in Layouts :
              SamePointer(update_block_layout(Store, now, b, layout_data), c)

\* the calls whose child validates a new version of block b
Validating(b) ==
  {call \in Waiting("update", "child") \cup Waiting("heal", "child") :
     call.block_id = b}

\* a step that moves the pointer of a block is the end of the child of a call
\* that validated a new version of that block: the pointer is at that version,
\* the row of the version is added in the same step and no failure is logged
PointerMovesWithValidation ==
  \A b \in Existing :
    blocks'[b].current_version # blocks[b].current_version =>
      \E call \in Validating(b) :
        /\ CopiesIn(call, calls') < CopiesIn(call, calls)
        /\ blocks'[b].current_version = call.new_version
        /\ Len(versions') = Len(versions) + 1
        /\ versions'[Len(versions')] =
             BlockVersion(b, call.new_version, call.backend_code)
        /\ \A row \in BagToSet(logs') :
             ~row.success => CopiesIn(row, logs') = CopiesIn(row, logs)

\* the store after the step is the one the call r left
LeftBy(r) ==
  /\ blocks' = r.st.blocks
  /\ versions' = r.st.versions
  /\ logs' = r.st.logs
  /\ data' = r.st.data
  /\ dirs' = r.st.dirs

\* C2 as stated: GetData, like Delete and UpdateLayout, leaves current_version
\* unchanged: a GetData call that runs with no other call in between leaves
\* the pointer of every block where it was
C2_GetDataLeavesPointer ==
  Quiet =>
    \A b \in BlockIds :
      \A pick \in Picks(Store, b) :
        \A r \in GetDataResults(Store, now, b, pick, <<>>, <<>>) :
          \A c \in Existing : SamePointer(r, c)

\* a GetData call that runs with no other call in between moves the pointer
\* of a block only when it found no usable cached row and the heal nested in
\* its refresh succeeded
GetDataMovesPointerOnHeal ==
  Quiet =>
    \A c \in Existing, b \in BlockIds :
      \A pick \in Picks(Store, b) :
        \A r \in GetDataResults(Store, now, b, pick, <<>>, <<>>) :
          SamePointer(r, c) \/ (b = c /\ ~r.cached /\ HealedInRefresh(r))

\* C2 amended: as PointerMovesOnlyOnSuccess, GetData moving the pointer only
\* through the heal nested in its refresh; and whatever calls are in flight
\* together, every step that moves a pointer is the successful validation of
\* a new version by an Update or a Heal (called by hand or nested)
C2_PointerMovesOnlyOnSuccess ==
  /\ [](PointerMovesOnlyOnSuccess /\ GetDataMovesPointerOnHeal)
  /\ [][PointerMovesWithValidation]_vars

\* C2 witness: a block whose pointer moved to 2 on a successful run and stayed
\* there when a later version, numbered 3, failed its validation
C2_Witness ==
  \E b \in Existing :
    /\ blocks[b].current_version = 2
    /\ VersionRowIds(Store, b, 3) # {}

\* C3 as stated: with one call at a time, the version numbers of one block
\* are strictly increasing in creation order, so no two version rows of a
\* block share a number, also after a failed Update or Heal
C3_StrictlyIncreasing ==
  \A i, j \in 1..Len(versions) :
    (i < j /\ versions[i].block_id = versions[j].block_id)
      => versions[i].version < versions[j].version

\* C4: with one call at a time, the version numbers of one block never
\* decrease in creation order, and the first version row of every block is
\* numbered 1
C4_NonDecreasingFromOne ==
  /\ \A i, j \in 1..Len(versions) :
       (i < j /\ versions[i].block_id = versions[j].block_id)
         => versions[i].version <= versions[j].version
  /\ \A b \in Existing :
       /\ VersionRowsOf(Store, b) # {}
       /\ versions[Min(VersionRowsOf(Store, b))].version = 1

\* C4 witness: a block with three versions numbered 1, 2, 3 in creation order
C4_Witness ==
  \E b \in Existing :
    \E i, j, k \in VersionRowsOf(Store, b) :
      /\ i < j /\ j < k
      /\ versions[i].version = 1
      /\ versions[j].version = 2
      /\ versions[k].version = 3

\* the log rows of block b
LogsOf(st, b) == CountLogs(st, {r \in BagToSet(st.logs) : r.block_id = b})

\* the store st2 is st1 with one more block, id, at version 1, exactly one
\* version row for it, numbered 1, and after a successful run the status
\* active and no more logs, after a failed one the status error and exactly
\* one more log (fetch, failed, version 1)
CreatedFrom(st1, st2, id, run, t) ==
  /\ Len(st2.blocks) = id
  /\ id = Len(st1.blocks) + 1
  /\ SubSeq(st2.blocks, 1, Len(st1.blocks)) = st1.blocks
  /\ OneMoreVersion(st1, st2, id, 1)
  /\ VersionRowsOf(st2, id) = {Len(st2.versions)}
  /\ st2.blocks[id].current_version = 1
  /\ Succeeded(run) =>
       /\ st2.blocks[id].status = "active"
       /\ st2.logs = st1.logs
  /\ ~Succeeded(run) =>
       /\ st2.blocks[id].status = "error"
       /\ OneMoreLog(st1, st2, ExecutionLog(id, 1, "fetch", FALSE, t))

\* C5: when the oracle returns, Create adds one block and exactly one version
\* row for it, numbered 1, and leaves current_version = 1; a successful
\* validation run gives status active and writes no log, a failed one gives
\* status error and writes exactly one log (fetch, failed, version 1).  This
\* holds of a Create that runs with no other call in between, and, whatever
\* other calls are in flight, of the commit of every Create whose child ends,
\* before which the Create has written no row
C5_CreatePersistsVersionOne ==
  /\ Quiet =>
       \A interval \in Intervals, gen \in Codes, run \in ExecResults :
         LET r == create_block(Store, now, interval, gen, run)
         IN /\ r.outcome = "returned"
            /\ CreatedFrom(Store, r.st, Len(blocks) + 1, run, now)
  /\ \A call \in Waiting("create", "oracle"), gen \in Codes :
       Rows(create_block_generated(Store, now, call, gen).st) = Rows(Store)
  /\ \A call \in Waiting("create", "child"), run \in ExecResults :
       LET r == create_block_executed(Store, now, call, run)
       IN /\ r.outcome = "returned"
          /\ CreatedFrom(Store, r.st, call.block_id, run, now)

\* C5 witness: a first block created with a successful run (active, one
\* version, no log) and a second created with a failed run (error, version 1
\* persisted, one failed fetch log of version 1)
C5_Witness ==
  /\ Len(blocks) = 2
  /\ blocks[1].status = "active"
  /\ LogsOf(Store, 1) = 0
  /\ blocks[2].status = "error"
  /\ blocks[2].current_version = 1
  /\ Cardinality(VersionRowsOf(Store, 2)) = 1
  /\ VersionRowIds(Store, 2, 1) # {}
  /\ LogsOf(Store, 2) = 1
  /\ CopiesIn(ExecutionLog(2, 1, "fetch", FALSE, now), logs) = 1

\* the status that reflects a run: active after a success, error after a
\* failure
StatusFor(run) == IF Succeeded(run) THEN "active" ELSE "error"

\* the store st2 is st1 after an Update of block b that read the pointer cv:
\* one new version numbered cv + 1 is persisted; when the validation run
\* succeeded, the pointer is the new number; when it failed, the pointer is
\* where st1 has it and exactly one log is written (fetch, failed, the new
\* number)
UpdatedFrom(st1, st2, b, cv, run, t) ==
  /\ OneMoreVersion(st1, st2, b, cv + 1)
  /\ Succeeded(run) => st2.blocks[b].current_version = cv + 1
  /\ ~Succeeded(run) =>
       /\ st2.blocks[b].current_version = st1.blocks[b].current_version
       /\ OneMoreLog(st1, st2, ExecutionLog(b, cv + 1, "fetch", FALSE, t))

\* C6: an Update of an existing block for which the oracle returns persists
\* one new version numbered current_version + 1; when its validation run
\* fails, current_version is unchanged, the status is error and exactly one
\* log is written (fetch, failed, the new number); when it succeeds,
\* current_version is the new number and the status is active.  This holds of
\* an Update that runs with no other call in between; whatever other calls
\* are in flight, the commit of an Update does the same with the pointer its
\* session loaded before the oracle call, and writes the status where it
\* differs from the status loaded
C6_UpdateOutcome ==
  /\ Quiet =>
       \A b \in Existing, gen \in Codes, run \in ExecResults :
         LET r == update_block(Store, now, b, gen, run)
         IN /\ r.outcome = "returned"
            /\ UpdatedFrom(Store, r.st, b, blocks[b].current_version, run, now)
            /\ r.st.blocks[b].status = StatusFor(run)
  /\ \A call \in Waiting("update", "oracle"), gen \in Codes :
       Rows(update_block_generated(Store, now, call, gen).st) = Rows(Store)
  /\ \A call \in Waiting("update", "child"), run \in ExecResults :
       LET r == update_block_executed(Store, now, call, run)
           b == call.block_id
       IN /\ r.outcome = "returned"
          /\ UpdatedFrom(Store, r.st, b, call.block.current_version, run, now)
          /\ r.st.blocks[b].status \in {StatusFor(run), blocks[b].status}
          /\ call.block.status # StatusFor(run)
               => r.st.blocks[b].status = StatusFor(run)

\* C6 witness: a block updated with success (pointer at 2) and then without
\* (version 3 persisted, pointer still 2, status error, one failed fetch log
\* of version 3)
C6_Witness ==
  \E b \in Existing :
    /\ blocks[b].current_version = 2
    /\ blocks[b].status = "error"
    /\ VersionRowIds(Store, b, 3) # {}
    /\ CopiesIn(ExecutionLog(b, 3, "fetch", FALSE, now), logs) = 1

\* C7: after an Update or a Heal of an existing block that ran with no other
\* call in between, whatever the oracle and the child did, a status of error
\* implies that current_version is what it was before the call
C7_ErrorKeepsPointer ==
  Quiet =>
    \A b \in Existing, gen \in OracleResults, run \in ExecResults :
      /\ LET r == update_block(Store, now, b, gen, run)
         IN r.st.blocks[b].status = "error" => SamePointer(r, b)
      /\ LET r == heal_block(Store, now, b, gen, run)
         IN r.st.blocks[b].status = "error" => SamePointer(r, b)

\* C7 witness: a block in status error after a heal whose version was
\* rejected: the failed heal is logged against the pointer, which has not
\* moved to the rejected version
C7_Witness ==
  \E b \in Existing :
    /\ blocks[b].status = "error"
    /\ CopiesIn(ExecutionLog(b, blocks[b].current_version, "heal", FALSE, now),
                logs) >= 1
    /\ VersionRowIds(Store, b, blocks[b].current_version + 1) # {}

\* C8 as stated: after every call that ran the executor for a block that is
\* not deleted (the validation run of an Update or a Heal, the runs of a
\* RefreshData) with no other call in between, the status of the block is
\* active if the last run succeeded and error if it failed
C8_StatusReflectsLastRun ==
  Quiet =>
    \A b \in Existing :
      blocks[b].status # "deleted" =>
        /\ \A gen \in Codes, run \in ExecResults :
             /\ update_block(Store, now, b, gen, run).st.blocks[b].status
                  = StatusFor(run)
             /\ FailureLogs(Store, b) # {} =>
                  heal_block(Store, now, b, gen, run).st.blocks[b].status
                    = StatusFor(run)
        /\ \A r \in RefreshResults(Store, now, b, <<>>, <<>>) :
             r.execs # <<>> =>
               r.st.blocks[b].status = StatusFor(r.execs[Len(r.execs)])

\* Heal's preconditions on block b: a version row at current_version and a
\* failure log of the block
HealPrecondition(st, b) ==
  /\ VersionRowIds(st, b, st.blocks[b].current_version) # {}
  /\ FailureLogs(st, b) # {}

\* C9: a Heal of an existing block without a failure log, or without a version
\* row at current_version, is rejected with the precondition error before any
\* oracle call or executor run, and leaves the store and the artifact tree as
\* they were, whatever other calls are in flight: the Heal ends where it
\* started, without waiting for anything
C9_HealRejectedUntouched ==
  \A b \in Existing :
    ~HealPrecondition(Store, b) =>
      /\ \A gen \in OracleResults, run \in ExecResults :
           LET r == heal_block(Store, now, b, gen, run)
           IN /\ r.outcome = "precondition"
              /\ r.gens = 0
              /\ r.execs = <<>>
              /\ r.st = Store
      /\ LET r == heal_block_begin(Store, now, [IdleCall EXCEPT !.op = "heal"], b)
         IN /\ r.outcome = "precondition"
            /\ r.call.pc = "done"
            /\ r.call.runs = 0
            /\ r.st = Store

\* C9 witness: a block without any failure log, beside a block that has one,
\* on which Heal is rejected
C9_Witness ==
  \E b, c \in Existing :
    /\ FailureLogs(Store, b) = {}
    /\ FailureLogs(Store, c) # {}
    /\ heal_block(Store, now, b, "code", "p1").outcome = "precondition"

\* the store st2 is st1 after a Heal of block b that read the pointer cv: one
\* new version numbered cv + 1 is persisted; when its run succeeded, the
\* pointer is the new number and one log is written (heal, success, the new
\* number); when it failed, the pointer is where st1 has it and one log is
\* written (heal, failed, cv)
HealedFrom(st1, st2, b, cv, run, t) ==
  /\ OneMoreVersion(st1, st2, b, cv + 1)
  /\ Succeeded(run) =>
       /\ st2.blocks[b].current_version = cv + 1
       /\ OneMoreLog(st1, st2, ExecutionLog(b, cv + 1, "heal", TRUE, t))
  /\ ~Succeeded(run) =>
       /\ st2.blocks[b].current_version = st1.blocks[b].current_version
       /\ OneMoreLog(st1, st2, ExecutionLog(b, cv, "heal", FALSE, t))

\* C10: a Heal whose preconditions hold and for which the oracle returns
\* persists one new version numbered current_version + 1; when its run
\* succeeds, current_version is the new number, the status is active and one
\* log is written (heal, success, the new number); when it fails,
\* current_version is unchanged and one log is written (heal, failed, the
\* number that was current before the attempt).  This holds of a Heal that
\* runs with no other call in between; whatever other calls are in flight,
\* the commit of a heal, called by hand or by a refresh, does the same with
\* the pointer its session loaded before the oracle call
C10_HealOutcome ==
  /\ Quiet =>
       \A b \in Existing, gen \in Codes, run \in ExecResults :
         HealPrecondition(Store, b) =>
           LET r == heal_block(Store, now, b, gen, run)
           IN /\ r.outcome = "returned"
              /\ HealedFrom(Store, r.st, b, blocks[b].current_version, run, now)
              /\ Succeeded(run) => r.st.blocks[b].status = "active"
  /\ \A call \in Waiting("heal", "oracle"), gen \in Codes :
       Rows(heal_block_generated(Store, now, call, gen).st) = Rows(Store)
  /\ \A call \in Waiting("heal", "child"), run \in ExecResults :
       LET r == heal_block_executed(Store, now, call, run)
           b == call.block_id
       IN /\ call.op = "heal" => r.outcome = "returned"
          /\ HealedFrom(Store, r.st, b, call.block.current_version, run, now)
          /\ (Succeeded(run) /\ call.block.status # "active")
               => r.st.blocks[b].status = "active"

\* C10 witness: a block healed twice, first with a rejected version (failed
\* heal logged against version 1, version 2 persisted) and then with a good
\* one (successful heal logged against version 2, pointer at 2, active)
C10_Witness ==
  \E b \in Existing :
    /\ blocks[b].current_version = 2
    /\ blocks[b].status = "active"
    /\ CopiesIn(ExecutionLog(b, 1, "heal", FALSE, now), logs) = 1
    /\ CopiesIn(ExecutionLog(b, 2, "heal", TRUE, now), logs) = 1
    /\ Cardinality(VersionRowIds(Store, b, 2)) = 2

\* C11: a Heal whose preconditions hold returns the block whatever the oracle
\* and the child do, and its commit carries exactly one more log row; when
\* the oracle call itself fails, no child is run, no version row is created
\* and the log row is a failed heal of the current version.  This holds of a
\* Heal that runs with no other call in between, and of every stretch of a
\* Heal that is past its preconditions while other calls are in flight
C11_HealNeverRaises ==
  /\ Quiet =>
       \A b \in Existing, gen \in OracleResults, run \in ExecResults :
         HealPrecondition(Store, b) =>
           LET r == heal_block(Store, now, b, gen, run)
               cv == blocks[b].current_version
           IN /\ r.outcome = "returned"
              /\ BagCardinality(r.st.logs) = BagCardinality(logs) + 1
              /\ gen = OracleError =>
                   /\ r.execs = <<>>
                   /\ r.st.versions = versions
                   /\ r.st.blocks = blocks
                   /\ OneMoreLog(Store, r.st, ExecutionLog(b, cv, "heal", FALSE, now))
  /\ \A call \in {c \in Waiting("heal", "oracle") : c.op = "heal"} :
       /\ \A gen \in Codes :
            heal_block_generated(Store, now, call, gen).outcome = Suspended
       /\ LET r == heal_block_generated(Store, now, call, OracleError)
          IN /\ r.outcome = "returned"
             /\ r.call.runs = 0
             /\ r.st.versions = versions
             /\ r.st.blocks = blocks
             /\ OneMoreLog(Store, r.st,
                           ExecutionLog(call.block_id, call.block.current_version,
                                        "heal", FALSE, now))
  /\ \A call \in {c \in Waiting("heal", "child") : c.op = "heal"} :
       \A run \in ExecResults :
         LET r == heal_block_executed(Store, now, call, run)
         IN /\ r.outcome = "returned"
            /\ BagCardinality(r.st.logs) = BagCardinality(logs) + 1

\* C11 witness: a block with a failed heal in its log and still only the
\* version row it was created with: the heal's oracle call failed
C11_Witness ==
  \E b \in Existing :
    /\ CopiesIn(ExecutionLog(b, 1, "heal", FALSE, now), logs) >= 1
    /\ Cardinality(VersionRowsOf(Store, b)) = 1
    /\ heal_block(Store, now, b, OracleError, "p1").outcome = "returned"

\* the failure logs of block b, of any execution type, written less than an
\* hour before t
FailuresInHour(st, b, t) ==
  {r \in BagToSet(st.logs) :
     r.block_id = b /\ r.success = FALSE /\ t - r.created_at < Hour}

\* the times at which a refresh of block b started a heal on its own
AutoHealTimes(b) == {x[2] : x \in {y \in BagToSet(auto_heals) : y[1] = b}}

\* C12: the heal attempts that refreshes of one block started on their own
\* are at least an hour apart, whatever calls of RefreshData, GetData,
\* Update, Create and Heal run between the suspension points of one another;
\* the stretch of a refresh that follows a failed run starts at most one
\* heal, and only when the block had no failure log of any type in the
\* trailing hour before the failure it has just logged; so does a
\* RefreshData or GetData call that runs with no other call in between
C12_OneAutoHealPerHour ==
  /\ \A x \in BagToSet(auto_heals) : CopiesIn(x, auto_heals) = 1
  /\ \A b \in Existing :
       \A t1, t2 \in AutoHealTimes(b) : t1 < t2 => t2 - t1 >= Hour
  /\ \A call \in Waiting("refresh", "child") :
       LET r == refresh_block_data_executed(Store, now, call, ExecFail)
       IN /\ r.heals <= 1
          /\ r.heals = 1 => FailuresInHour(Store, call.block_id, now) = {}
  /\ Quiet =>
       \A b \in Existing :
         /\ \A r \in RefreshResults(Store, now, b, <<>>, <<>>) :
              /\ r.heals <= 1
              /\ r.heals = 1 => FailuresInHour(Store, b, now) = {}
         /\ \A pick \in Picks(Store, b) :
              \A r \in GetDataResults(Store, now, b, pick, <<>>, <<>>) :
                /\ r.heals <= 1
                /\ r.heals = 1 => FailuresInHour(Store, b, now) = {}

\* C12 witness: a refresh at time 0 failed and started a heal; half an hour
\* later another refresh of the block failed and started none
C12_Witness ==
  \E b \in Existing :
    /\ AutoHealTimes(b) = {0}
    /\ CopiesIn(ExecutionLog(b, blocks[b].current_version, "fetch", FALSE, 1),
                logs) = 1

\* the times of the failed refresh runs of block b
RefreshFailureTimes(b) ==
  {x[2] : x \in {y \in BagToSet(refresh_failures) : y[1] = b}}

\* how many of the occurrences noted in bag for block b fall in the hour that
\* starts at t
InHourFrom(bag, b, t) ==
  LET xs == {x \in BagToSet(bag) : x[1] = b /\ t <= x[2] /\ x[2] - t < Hour}
  IN BagCardinality([x \in xs |-> CopiesIn(x, bag)])

\* t is the time of a failed refresh run of b that no other one precedes by
\* less than an hour
FirstFailureOfWindow(b, t) ==
  /\ t \in RefreshFailureTimes(b)
  /\ \A t0 \in RefreshFailureTimes(b) : t0 < t => t - t0 >= Hour

\* C13 as stated: whenever two or more refresh runs of a block failed within
\* the hour that starts at the first of them, exactly one heal was started
\* automatically in that hour
C13_ExactlyOneHeal ==
  \A b \in Existing, t \in 0..MaxTime :
    (FirstFailureOfWindow(b, t) /\ InHourFrom(refresh_failures, b, t) >= 2)
      => InHourFrom(auto_heals, b, t) = 1

\* C13 amended: in the hour that starts at the first failed refresh run at
\* most one heal is started automatically, however many runs fail; a
\* RefreshData or GetData call whose run fails starts exactly one heal when
\* the block has no failure log in the trailing hour, and none when it has
C13_AtMostOneHeal ==
  /\ \A b \in Existing, t \in 0..MaxTime :
       FirstFailureOfWindow(b, t) => InHourFrom(auto_heals, b, t) <= 1
  /\ \A call \in Waiting("refresh", "child") :
       refresh_block_data_executed(Store, now, call, ExecFail).heals
         = IF FailuresInHour(Store, call.block_id, now) = {} THEN 1 ELSE 0
  /\ Quiet =>
       \A b \in Existing :
         /\ \A r \in RefreshResults(Store, now, b, <<>>, <<>>) :
              (r.execs # <<>> /\ ~Succeeded(r.execs[1])) =>
                r.heals = IF FailuresInHour(Store, b, now) = {} THEN 1 ELSE 0
         /\ \A pick \in Picks(Store, b) :
              \A r \in GetDataResults(Store, now, b, pick, <<>>, <<>>) :
                (r.execs # <<>> /\ ~Succeeded(r.execs[1])) =>
                  r.heals = IF FailuresInHour(Store, b, now) = {} THEN 1 ELSE 0

\* C13 witness: three refresh runs of a block failed within one hour, the
\* first of them started a heal and the later ones none
C13_Witness ==
  \E b \in Existing :
    /\ FirstFailureOfWindow(b, 0)
    /\ InHourFrom(refresh_failures, b, 0) = 3
    /\ InHourFrom(auto_heals, b, 0) = 1
    /\ 1 \in RefreshFailureTimes(b)

\* the validation runs of the heal nested in the refresh r: the heal ran its
\* new version exactly when it created a version row
HealRuns(r) == IF r.st.versions = versions THEN 0 ELSE 1

\* the runs the refresh r made after its heal attempt: all its runs but the
\* first and the heal's validation run
Retries(r) == Len(r.execs) - 1 - HealRuns(r)

\* C14 as stated: a RefreshData call that attempted a heal re-runs the
\* executor exactly once when the heal succeeded, and not at all when the
\* heal failed (the call running with no other call in between)
C14_RetryOnlyAfterHealed ==
  Quiet =>
    \A b \in Existing :
      \A r \in RefreshResults(Store, now, b, <<>>, <<>>) :
        r.heals = 1 => Retries(r) = IF HealedInRefresh(r) THEN 1 ELSE 0

\* the last run of the call r
LastRun(r) == r.execs[Len(r.execs)]

\* C15: a RefreshData call whose first run fails either returns the payload
\* of its retried run, which succeeded, and raises nothing, or raises the
\* failure of its first run; when the block already had a failure log in the
\* trailing hour it raises that failure after the one run, without calling
\* the oracle or running anything else
C15_OriginalFailureRaised ==
  Quiet =>
    \A b \in Existing :
      \A r \in RefreshResults(Store, now, b, <<>>, <<>>) :
        (r.execs # <<>> /\ ~Succeeded(r.execs[1])) =>
          /\ \/ /\ r.outcome = "returned"
                /\ r.raisedBy = 0
                /\ r.heals = 1
                /\ Retries(r) = 1
                /\ Succeeded(LastRun(r))
                /\ r.payload = LastRun(r)
             \/ /\ r.outcome = "exec_error"
                /\ r.raisedBy = 1
                /\ r.payload = NoData
          /\ (r.heals = 1 /\ Retries(r) = 1 /\ Succeeded(LastRun(r)))
               => r.outcome = "returned"
          /\ FailuresInHour(Store, b, now) # {} =>
               /\ r.outcome = "exec_error"
               /\ r.heals = 0
               /\ r.gens = 0
               /\ r.execs = <<ExecFail>>

\* C15 witness: a block whose refresh failed, was healed and retried with
\* success (a failed fetch, a successful heal, a successful fetch and its
\* cached row, all of the same time), and on which the next failing refresh
\* raises without a heal
C15_Witness ==
  \E b \in Existing :
    /\ CopiesIn(ExecutionLog(b, 1, "fetch", FALSE, now), logs) = 1
    /\ CopiesIn(ExecutionLog(b, 2, "heal", TRUE, now), logs) = 1
    /\ CopiesIn(ExecutionLog(b, 2, "fetch", TRUE, now), logs) = 1
    /\ \E i \in 1..Len(data) : data[i].block_id = b /\ data[i].fetched_at = now
    /\ \E r \in RefreshResults(Store, now, b, <<>>, <<>>) :
         r.outcome = "exec_error" /\ r.heals = 0

\* the cached rows of block b
DataRowsOf(st, b) == {i \in 1..Len(st.data) : st.data[i].block_id = b}

\* row i of the cache was fetched no longer than the block's refresh interval
\* before t
Unexpired(st, b, i, t) ==
  t - st.data[i].fetched_at <= st.blocks[b].refresh_interval

\* the GetData calls of block b at time t, given the row pick by its cache
\* query, do what the cache-aware read is to do: an unexpired most recent row
\* is returned as cached with no run and no write; otherwise the calls are
\* those of RefreshData and what they return is the payload of their last
\* run, not cached
CacheAware(st, t, b, pick) ==
  LET results == GetDataResults(st, t, b, pick, <<>>, <<>>)
  IN /\ pick = 0 <=> DataRowsOf(st, b) = {}
     /\ pick # 0 =>
          /\ pick \in DataRowsOf(st, b)
          /\ \A j \in DataRowsOf(st, b) :
               st.data[j].fetched_at <= st.data[pick].fetched_at
     /\ IF pick # 0 /\ Unexpired(st, b, pick, t)
        THEN \A r \in results :
               /\ r.cached
               /\ r.outcome = "returned"
               /\ r.payload = st.data[pick].data
               /\ r.execs = <<>>
               /\ r.st = st
        ELSE /\ results = RefreshResults(st, t, b, <<>>, <<>>)
             /\ \A r \in results :
                  /\ ~r.cached
                  /\ r.execs # <<>>
                  /\ r.outcome = "returned" => r.payload = LastRun(r)

\* C16: every GetData call is cache-aware; after a GetData that ran the
\* executor and returned, a second GetData at any time within the refresh
\* interval runs nothing and returns the same payload as cached, so the two
\* calls run the executor once when the first run succeeded; a RefreshData
\* call always runs the executor, whatever the cache holds
C16_CacheAwareRead ==
  Quiet =>
    \A b \in Existing :
      /\ \A pick \in Picks(Store, b) :
           /\ CacheAware(Store, now, b, pick)
           /\ \A r1 \in GetDataResults(Store, now, b, pick, <<>>, <<>>) :
                (r1.outcome = "returned" /\ ~r1.cached) =>
                  \A t2 \in now..(now + blocks[b].refresh_interval) :
                    \A pick2 \in Picks(r1.st, b) :
                      \A r2 \in GetDataResults(r1.st, t2, b, pick2, <<>>, <<>>) :
                        /\ r2.cached
                        /\ r2.payload = r1.payload
                        /\ r2.execs = <<>>
                        /\ Succeeded(r1.execs[1]) => Len(r1.execs \o r2.execs) = 1
      /\ \A r \in RefreshResults(Store, now, b, <<>>, <<>>) : r.execs # <<>>

\* C16 witness: a block with two cached rows of different payloads; the first
\* had expired when the second was fetched, and the second is still valid
C16_Witness ==
  \E b \in Existing :
    \E i, j \in DataRowsOf(Store, b) :
      /\ data[i].expires_at < data[j].fetched_at
      /\ data[i].data # data[j].data
      /\ Unexpired(Store, b, j, now)
      /\ now > data[j].fetched_at

\* the call r left every cached row of the store as it was
DataKept(r) ==
  /\ Len(r.st.data) >= Len(data)
  /\ SubSeq(r.st.data, 1, Len(data)) = data

\* the runs of the refresh r (its first run and its retry, not the validation
\* run of its heal) that succeeded
GoodRefreshRuns(r) ==
  (IF r.execs # <<>> /\ Succeeded(r.execs[1]) THEN 1 ELSE 0)
  + (IF r.heals = 1 /\ Retries(r) = 1 /\ Succeeded(LastRun(r)) THEN 1 ELSE 0)

\* the successful fetch logs of block b
GoodFetches(st, b) ==
  CountLogs(st, {x \in BagToSet(st.logs) :
                   x.block_id = b /\ x.execution_type = "fetch" /\ x.success})

\* the refresh r of block b kept the cached rows and added one for each of
\* its runs that succeeded (there is at most one), holding the payload of
\* the run and expiring one refresh interval after now, and as many
\* successful fetch logs
CachesGoodRuns(r, b) ==
  /\ DataKept(r)
  /\ Len(r.st.data) = Len(data) + GoodRefreshRuns(r)
  /\ GoodFetches(r.st, b) = GoodFetches(Store, b) + GoodRefreshRuns(r)
  /\ \A i \in (Len(data) + 1)..Len(r.st.data) :
       /\ r.st.data[i].block_id = b
       /\ r.st.data[i].data = LastRun(r)
       /\ r.st.data[i].fetched_at = now
       /\ r.st.data[i].expires_at = now + blocks[b].refresh_interval
       /\ CopiesIn(ExecutionLog(b, r.st.blocks[b].current_version, "fetch",
                                TRUE, now), r.st.logs)
            = CopiesIn(ExecutionLog(b, r.st.blocks[b].current_version, "fetch",
                                    TRUE, now), logs) + 1

\* C17: a RefreshData call, and a GetData call that finds no usable cached
\* row, adds one cached row and one successful fetch log for each of its own
\* runs that succeeded, expiring refresh_interval after the run; Create,
\* Update, Heal, Delete and UpdateLayout leave the cached rows as they are,
\* and no call changes or removes a cached row; among other calls in flight,
\* the only stretch that touches the cached rows is the one after a
\* successful run of a refresh, which appends one row and one log
C17_DataOnlyFromRefresh ==
  /\ \A call \in InFlight :
       /\ call.pc = "oracle" =>
            \A gen \in OracleResults :
              generated(Store, now, call, gen).st.data = data
       /\ call.pc = "child" =>
            \A run \in ExecResults :
              LET r == executed(Store, now, call, run)
              IN IF call.frame = "refresh" /\ Succeeded(run)
                 THEN /\ DataKept(r)
                      /\ Len(r.st.data) = Len(data) + 1
                      /\ LET row == r.st.data[Len(r.st.data)]
                         IN /\ row.block_id = call.block_id
                            /\ row.data = run
                            /\ row.fetched_at = now
                            /\ row.expires_at
                                 = now + call.block.refresh_interval
                      /\ OneMoreLog(Store, r.st,
                                    ExecutionLog(call.block_id,
                                                 call.block.current_version,
                                                 "fetch", TRUE, now))
                 ELSE r.st.data = data
  /\ Quiet =>
      /\ \A interval \in Intervals, gen \in OracleResults, run \in ExecResults :
           create_block(Store, now, interval, gen, run).st.data = data
      /\ \A b \in BlockIds :
           /\ \A gen \in OracleResults, run \in ExecResults :
                /\ update_block(Store, now, b, gen, run).st.data = data
                /\ heal_block(Store, now, b, gen, run).st.data = data
           /\ delete_block(Store, now, b).st.data = data
           /\ \A layout_data \in Layouts :
                update_block_layout(Store, now, b, layout_data).st.data = data
      /\ \A b \in Existing :
           /\ \A r \in RefreshResults(Store, now, b, <<>>, <<>>) :
                CachesGoodRuns(r, b)
           /\ \A pick \in Picks(Store, b) :
                \A r \in GetDataResults(Store, now, b, pick, <<>>, <<>>) :
                  CachesGoodRuns(r, b)

\* C17 witness: half an hour or more after the start, a refresh failed, was
\* healed to version 2 and retried with success: the block has one cached
\* row, fetched then and expiring an interval later
C17_Witness ==
  \E b \in Existing, t \in 1..MaxTime :
    /\ blocks[b].current_version = 2
    /\ CopiesIn(ExecutionLog(b, 1, "fetch", FALSE, t), logs) = 1
    /\ CopiesIn(ExecutionLog(b, 2, "heal", TRUE, t), logs) = 1
    /\ CopiesIn(ExecutionLog(b, 2, "fetch", TRUE, t), logs) = 1
    /\ \E i \in DataRowsOf(Store, b) :
         /\ data[i].fetched_at = t
         /\ data[i].expires_at = t + blocks[b].refresh_interval
    /\ Cardinality(DataRowsOf(Store, b)) = 1

\* C18 as stated: a block whose status is deleted keeps that status through
\* every later call, and a block's status becomes deleted only by a Delete
\* of it
C18_DeletedIsTerminal ==
  [][\A b \in Existing :
       /\ blocks[b].status = "deleted" => blocks'[b].status = "deleted"
       /\ (blocks[b].status # "deleted" /\ blocks'[b].status = "deleted")
            => LeftBy(delete_block(Store, now, b))
    ]_vars

\* the call r called neither the oracle nor the executor and left every
\* version, cached and log row and the artifact tree as they were
HistoryRemains(r) ==
  /\ r.gens = 0
  /\ r.execs = <<>>
  /\ r.st.versions = versions
  /\ r.st.data = data
  /\ r.st.logs = logs
  /\ r.st.dirs = dirs

\* C19 as stated: a step of Delete changes nothing but the status of its
\* block, a step of UpdateLayout nothing but the layout and the update
\* timestamp of its block, and on a missing block either changes nothing
C19_MetadataOnly ==
  [][\A b \in BlockIds :
       /\ LeftBy(delete_block(Store, now, b)) =>
            /\ HistoryRemains(delete_block(Store, now, b))
            /\ blocks' = IF b \in Existing
                         THEN [blocks EXCEPT ![b].status = "deleted"]
                         ELSE blocks
       /\ \A layout_data \in Layouts :
            LeftBy(update_block_layout(Store, now, b, layout_data)) =>
              /\ HistoryRemains(update_block_layout(Store, now, b, layout_data))
              /\ blocks' = IF b \in Existing
                           THEN [blocks EXCEPT ![b].layout_data = layout_data,
                                               ![b].updated_at = now]
                           ELSE blocks
    ]_vars

\* C19 amended: Delete sets the status of its block to deleted and, when that
\* changes the row, its update timestamp to now; UpdateLayout sets the layout
\* and the update timestamp; neither calls the oracle or the executor nor
\* touches current_version or any version, cached or log row; on a missing
\* block both report failure and leave the store as it was
C19_MetadataAndTimestamp ==
  \A b \in BlockIds :
    /\ LET r == delete_block(Store, now, b)
       IN /\ HistoryRemains(r)
          /\ IF b \in Existing
             THEN /\ r.outcome = "true"
                  /\ r.st.blocks =
                       [blocks EXCEPT
                          ![b].status = "deleted",
                          ![b].updated_at =
                            IF blocks[b].status = "deleted" THEN @ ELSE now]
             ELSE r.outcome = "false" /\ r.st = Store
    /\ \A layout_data \in Layouts :
         LET r == update_block_layout(Store, now, b, layout_data)
         IN /\ HistoryRemains(r)
            /\ IF b \in Existing
               THEN /\ r.outcome = "true"
                    /\ r.st.blocks = [blocks EXCEPT ![b].layout_data = layout_data,
                                                    ![b].updated_at = now]
               ELSE r.outcome = "false" /\ r.st = Store

\* C19 witness: a block with a cached row and a log row that was laid out and
\* then deleted half an hour or more after its last refresh
C19_Witness ==
  \E b \in Existing :
    /\ blocks[b].status = "deleted"
    /\ blocks[b].layout_data = "moved"
    /\ \E i \in DataRowsOf(Store, b) : data[i].fetched_at < blocks[b].updated_at
    /\ LogsOf(Store, b) > 0
    /\ VersionRowIds(Store, b, blocks[b].current_version) # {}

\* the updates of block b that committed, as they ended
CommittedUpdates(b) ==
  {call \in BagToSet(calls) :
     call.op = "update" /\ call.committed /\ call.block_id = b}

\* how many committed updates of block b had loaded it at version cv
CommittedFrom(b, cv) ==
  HowMany({call \in CommittedUpdates(b) : call.block.current_version = cv})

\* the versions at which the validated, committed updates of b loaded it
ValidatedFrom(b) ==
  {call.block.current_version : call \in {c \in CommittedUpdates(b) : c.ok}}

\* C20: updates of one block are not serialized: every committed update that
\* loaded the block at current_version cv has added a version row numbered
\* cv + 1, so updates that loaded the same cv leave as many rows of that one
\* number, and together they advance current_version by one step only
C20_LostUpdate ==
  \A b \in 1..Len(blocks) :
    /\ \A call \in CommittedUpdates(b) :
         LET cv == call.block.current_version
         IN /\ call.new_version = cv + 1
            /\ Cardinality(VersionRowIds(Store, b, cv + 1)) = CommittedFrom(b, cv)
    /\ blocks[b].current_version <= 1 + Cardinality(ValidatedFrom(b))

\* C20 witness: two updates of a block at version 1 were both in flight
\* across the oracle call, both validated their version and both committed:
\* two rows numbered 2, current_version 2
C20_Witness ==
  \E b \in 1..Len(blocks) :
    /\ HowMany({call \in CommittedUpdates(b) :
                  call.ok /\ call.block.current_version = 1}) = 2
    /\ Cardinality(VersionRowIds(Store, b, 2)) = 2
    /\ blocks[b].current_version = 2

\* what the store holds for block c: its status and pointer, its version,
\* log and cached rows, and its version directories
Holdings(st, c) ==
  [status |-> st.blocks[c].status,
   current_version |-> st.blocks[c].current_version,
   versions |-> {<<i, st.versions[i]>> : i \in VersionRowsOf(st, c)},
   logs |-> [r \in {x \in BagToSet(st.logs) : x.block_id = c} |->
               CopiesIn(r, st.logs)],
   data |-> {<<i, st.data[i]>> : i \in DataRowsOf(st, c)},
   dirs |-> {d \in st.dirs : d[1] = c}]

\* the call r on block b left what the store held for every other block
OthersKept(r, b) ==
  \A c \in Existing : c # b => Holdings(r.st, c) = Holdings(Store, c)

\* the store without the log rows of the blocks other than b
OwnLogs(st, b) ==
  [st EXCEPT !.logs = [r \in {x \in BagToSet(st.logs) : x.block_id = b} |->
                         CopiesIn(r, st.logs)]]

\* how the refreshes of b from st can go: outcome, runs and heal attempts
RefreshCourses(st, b) ==
  {<<r.outcome, r.execs, r.gens, r.heals>> :
     r \in RefreshResults(st, now, b, <<>>, <<>>)}

\* C21: a call of Create, Update, Heal, RefreshData, GetData, Delete or
\* UpdateLayout on one block, from any store the calls can have left in any
\* order, leaves the status, current_version, version rows, log rows, cached
\* rows and version directories of every other block as they were, and a
\* refresh of a block heals or not as it would if the other blocks had no
\* failure logs.  This holds of the calls run one at a time and, while other
\* calls are in flight, of every stretch that a call runs between two
\* suspension points
C21_OtherBlocksUntouched ==
  /\ \A b \in BlockIds :
       /\ OthersKept(update_block_begin(Store, now, b), b)
       /\ OthersKept(heal_block_begin(Store, now,
                                      [IdleCall EXCEPT !.op = "heal"], b), b)
       /\ OthersKept(refresh_block_data_begin(
                       Store, now, [IdleCall EXCEPT !.op = "refresh"], b), b)
       /\ OthersKept(delete_block(Store, now, b), b)
       /\ \A layout_data \in Layouts :
            OthersKept(update_block_layout(Store, now, b, layout_data), b)
  /\ \A call \in InFlight :
       /\ call.pc = "oracle" =>
            \A gen \in OracleResults :
              LET r == generated(Store, now, call, gen)
              IN OthersKept(r, r.call.block_id)
       /\ call.pc = "child" =>
            \A run \in ExecResults :
              LET r == executed(Store, now, call, run)
              IN OthersKept(r, call.block_id)
  /\ \A call \in Waiting("refresh", "child") :
       LET b == call.block_id
       IN refresh_block_data_executed(Store, now, call, ExecFail).heals
            = refresh_block_data_executed(OwnLogs(Store, b), now, call,
                                          ExecFail).heals
  /\ Quiet =>
       /\ \A interval \in Intervals, gen \in OracleResults, run \in ExecResults :
            OthersKept(create_block(Store, now, interval, gen, run),
                       Len(blocks) + 1)
       /\ \A b \in BlockIds :
            /\ \A gen \in OracleResults, run \in ExecResults :
                 /\ OthersKept(update_block(Store, now, b, gen, run), b)
                 /\ OthersKept(heal_block(Store, now, b, gen, run), b)
            /\ \A r \in RefreshResults(Store, now, b, <<>>, <<>>) :
                 OthersKept(r, b)
            /\ \A pick \in Picks(Store, b) :
                 \A r \in GetDataResults(Store, now, b, pick, <<>>, <<>>) :
                   OthersKept(r, b)
            /\ RefreshCourses(Store, b) = RefreshCourses(OwnLogs(Store, b), b)

\* C21 witness: block 1 has a failure log of this hour and a version
\* directory, a call on it is in flight, and a refresh of block 2 in flight
\* beside it has run the code of block 2, which failed: at this first failure
\* of its own the refresh starts a heal
C21_Witness ==
  /\ Len(blocks) = 2
  /\ RecentErrors(Store, 1, now) > 0
  /\ <<1, 1>> \in dirs
  /\ \E call \in InFlight : call.block_id = 1
  /\ \E call \in Waiting("refresh", "child") :
       /\ call.block_id = 2
       /\ refresh_block_data_executed(Store, now, call, ExecFail).heals = 1

\* the call r ended with the failure of the oracle, after one oracle call and
\* no run of the executor, and left the store and the artifact tree as they
\* were
OracleFailureOnly(r) ==
  /\ r.outcome = "oracle_error"
  /\ r.gens = 1
  /\ r.execs = <<>>
  /\ r.st = Store

\* C22: when the oracle fails, Create and the Update of an existing block end
\* with that failure and commit nothing: no block, version or log row is
\* added, the executor is not run, and status and current_version of the
\* block are as they were.  This holds of the call run alone and, among
\* other calls in flight, of the stretch in which the oracle's failure
\* reaches a Create or an Update, which nothing has been written before
C22_OracleFailureCommitsNothing ==
  /\ \A interval \in Intervals :
       create_block_begin(Store, now, interval).st = Store
  /\ \A b \in BlockIds : update_block_begin(Store, now, b).st = Store
  /\ \A call \in Waiting("create", "oracle") \cup Waiting("update", "oracle") :
       LET r == generated(Store, now, call, OracleError)
       IN /\ r.outcome = "oracle_error"
          /\ r.call.pc = "done"
          /\ r.call.runs = 0
          /\ ~r.call.committed
          /\ r.st = Store
  /\ Quiet =>
       /\ \A interval \in Intervals, run \in ExecResults :
            OracleFailureOnly(create_block(Store, now, interval, OracleError, run))
       /\ \A b \in Existing, run \in ExecResults :
            OracleFailureOnly(update_block(Store, now, b, OracleError, run))

\* C22 witness: an Update waits for the oracle on a block that another
\* update, in flight beside it, has advanced to version 2 after it was
\* loaded, and the oracle fails
C22_Witness ==
  \E call \in Waiting("update", "oracle") :
    LET b == call.block_id
    IN /\ call.block.current_version = 1
       /\ blocks[b].current_version = 2
       /\ generated(Store, now, call, OracleError).outcome = "oracle_error"
       /\ generated(Store, now, call, OracleError).st.blocks[b] = blocks[b]

\* the call of the executor has ended / ended without the timeout
ExecDone == process.pc = "done"
InTime == ExecDone /\ ~process.timed_out

\* the failure kind a caller can read off the message of the exception
Kind(message) ==
  IF message = <<"Block execution timed out">> THEN "timed_out"
  ELSE IF Len(message) >= 2 /\ message[2] = "Block execution failed: "
  THEN "non_zero_exit"
  ELSE IF Len(message) >= 2 /\ message[2] = "Block did not return valid JSON"
  THEN "invalid_output"
  ELSE "other"

\* the bytes are a JSON document
ValidJson(bytes) == Decodable(bytes) /\ IsJson(decode(bytes))

\* the child had exited when the call of the executor ended
ExitedInTime == ExecDone /\ process.exited_in_time

\* a finished call spawned one child, and returns the parsed document exactly
\* when, in time, the child exited with code 0 and wrote a JSON document
OneChildAndSuccess(in_time) ==
  /\ process.spawned = 1
  /\ process.result.ok <=>
       in_time /\ process.returncode = 0 /\ ValidJson(process.stdout)
  /\ process.result.ok => process.result.payload = loads(decode(process.stdout))

\* C23 as stated: a finished call of execute_block spawned one child and
\* returns the parsed document exactly when the child exited with code 0
\* before the timeout with a JSON document on its standard output; any other
\* call fails with one of three kinds: non-zero exit, with the text of
\* standard error as its message, timed out, or invalid output
C23_ThreeFailureKinds ==
  ExecDone =>
    /\ OneChildAndSuccess(ExitedInTime)
    /\ ~process.result.ok =>
         LET kind == Kind(process.result.message)
         IN /\ kind \in {"non_zero_exit", "timed_out", "invalid_output"}
            /\ kind = "timed_out" <=> ~ExitedInTime
            /\ kind = "non_zero_exit" <=> ExitedInTime /\ process.returncode # 0
            /\ kind = "invalid_output" <=>
                 /\ ExitedInTime /\ process.returncode = 0
                 /\ ~ValidJson(process.stdout)
            /\ kind = "non_zero_exit" =>
                 process.result.message[3] = decode(process.stderr)

\* C23, amended: a finished call spawned one child and returns the parsed
\* document exactly when the wait was not timed out, the child exited with
\* code 0 and a JSON document was read; a wait that was not timed out had
\* the child exited and both pipes at their end, but not the other way
\* round (the timeout can come after the child has exited, and a process
\* that holds the pipes keeps the wait from ending); a timed-out call
\* fails as timed out whatever the child did; the message of a non-zero
\* exit is the text of standard error only when there is some, and a fixed
\* text otherwise, and a stream that has to be read and is no UTF-8 gives a
\* failure of a fourth kind, the same for a non-zero exit and for invalid
\* output
C23_FailureKinds ==
  ExecDone =>
    /\ OneChildAndSuccess(InTime)
    /\ InTime => PipesAtEnd /\ ExitedInTime
    /\ process.timed_out => process.result = TimedOutFailure
    /\ ~process.result.ok =>
         LET kind == Kind(process.result.message)
         IN /\ kind = "timed_out" <=> process.timed_out
            /\ kind = "non_zero_exit" <=>
                 InTime /\ process.returncode # 0 /\ Decodable(process.stderr)
            /\ kind = "invalid_output" <=>
                 /\ InTime /\ process.returncode = 0
                 /\ Decodable(process.stdout) /\ ~IsJson(decode(process.stdout))
            /\ kind = "other" <=>
                 InTime /\ ~Decodable(IF process.returncode # 0
                                      THEN process.stderr ELSE process.stdout)
            /\ kind = "non_zero_exit" =>
                 process.result.message[3] =
                   IF process.stderr = Utf8("") THEN "Unknown execution error"
                   ELSE decode(process.stderr)
            /\ kind = "other" =>
                 process.result.message = <<"Execution error: ", CodecError>>

\* C23 witness: the child printed its document and exited with code 1
\* without writing to standard error; the call failed as a non-zero exit
\* with the fixed message
C23_Witness ==
  /\ InTime
  /\ process.returncode = 1
  /\ ValidJson(process.stdout)
  /\ process.stderr = Utf8("")
  /\ process.result = Failure(<<"Execution error: ", "Block execution failed: ",
                                "Unknown execution error">>)

\* C24: once execute_block has reported the timed-out failure, the child it
\* spawned is not running any more
C24_TimedOutChildStopped ==
  process.result = TimedOutFailure => ~process.running

\* C25: inside the child, the import of a module whose top-level name is not
\* in the allowlist ends with an import error, installed or not, and the
\* import of an allowlisted module does what the original import does
C25_OnlyAllowlistedImports ==
  import_call.done =>
    IF import_call.name[1] \in ALLOWED_PACKAGES
    THEN import_call.result =
           original_import(import_call.name, import_call.host)
    ELSE ~import_call.result.ok

\* the versions of block b that have a directory in the artifact tree
VersionDirs(b) == {d[2] : d \in {x \in dirs : x[1] = b}}

\* C26: a block that Update and Heal have advanced through more than
\* keep_versions validated versions has exactly keep_versions version
\* directories, those of its most recent versions
C26_RetentionAfterManyVersions ==
  \A b \in Existing :
    blocks[b].current_version - 1 > keep_versions =>
      VersionDirs(b) = (blocks[b].current_version - keep_versions + 1)
                         .. blocks[b].current_version

\* the three sections: heading and field
Sections ==
  {[heading |-> "## Backend Code", field |-> "backend_code"],
   [heading |-> "## Frontend Code", field |-> "frontend_code"],
   [heading |-> "## Explanation", field |-> "explanation"]}
Headings == {s.heading : s \in Sections}

\* the heading that line i of the answer stands under ("none": before any)
RECURSIVE HeadingOver(_, _)
HeadingOver(lines, i) ==
  IF i = 0 THEN "none"
  ELSE IF strip(lines[i]) \in Headings THEN strip(lines[i])
  ELSE HeadingOver(lines, i - 1)

\* the first n lines of the answer without the sections under that heading
RECURSIVE Without(_, _, _)
Without(lines, heading, n) ==
  IF n = 0 THEN <<>>
  ELSE IF HeadingOver(lines, n) = heading THEN Without(lines, heading, n - 1)
  ELSE Append(Without(lines, heading, n - 1), lines[n])

\* the answer has a section under that heading
Present(lines, heading) == \E i \in 1..Len(lines) : strip(lines[i]) = heading

\* C27: the parser returns a result for every answer; the field of a section
\* that is missing from the answer is the empty string, and the field of a
\* section is the same whether or not another section is in the answer
C27_MissingSectionsOnly ==
  response.done =>
    \A s \in Sections :
      /\ ~Present(response.lines, s.heading) => response.result[s.field] = <<>>
      /\ \A o \in Sections \ {s} :
           parse_generated_code(
             Without(response.lines, o.heading, Len(response.lines)))[s.field]
           = response.result[s.field]

\* C28: a RefreshData call on any block, whatever the oracle and the child
\* processes answer, ends without asking for a fourth run or a second
\* answer of the oracle: at most one heal attempt, at most one oracle call
\* and at most three runs of the executor; a call in flight has started at
\* most one heal and at most three runs, and the stretch that follows the
\* failed run of a retried refresh ends the call
C28_RefreshTerminates ==
  /\ \A call \in BagToSet(calls) : call.heals <= 1 /\ call.runs <= 3
  /\ \A call \in Waiting("refresh", "child") :
       call.heals = 1 =>
         refresh_block_data_executed(Store, now, call, ExecFail).outcome
           = "exec_error"
  /\ Quiet =>
       \A b \in BlockIds :
         \A r \in RefreshResults(Store, now, b, <<>>, <<>>) :
           /\ ~IsStarved(r)
           /\ r.heals <= 1
           /\ r.gens <= 1
           /\ Len(r.execs) <= 3

\* the names of the version directories of block b in a tree, and the rest
\* of the tree
VersionDirNames(entries, b) ==
  {e[2] : e \in {x \in entries : /\ x[1] = b /\ startswith_v(x[2])
                                 /\ isdir(x[2]) /\ IsNumbered(x[2])}}
NotVersionDirs(entries, b) ==
  {e \in entries : e[1] # b \/ e[2] \notin VersionDirNames(entries, b)}

\* the smaller of two numbers
Smaller(m, n) == IF m <= n THEN m ELSE n

\* C29: a call cleanup_old_versions(block, N) returns; it adds nothing, and
\* leaves in place every entry that is no version directory of the block and
\* every directory whose deletion fails; when no deletion fails it leaves
\* min(N, count) version directories of the block, none with a smaller
\* version number than one it deleted
C29_KeepsHighestVersions ==
  cleanup.done =>
    LET b == cleanup.block_id
        had == VersionDirNames(cleanup.entries, b)
        has == VersionDirNames(cleanup.left, b)
    IN /\ cleanup.left \subseteq cleanup.entries
       /\ NotVersionDirs(cleanup.left, b) = NotVersionDirs(cleanup.entries, b)
       /\ \A name \in cleanup.failed \cap had : name \in has
       /\ cleanup.failed \cap had = {} =>
            /\ Cardinality(has) = Smaller(cleanup.keep_versions, Cardinality(had))
            /\ \A kept \in has, gone \in had \ has : int(kept) >= int(gone)

\* C29 witness: block 1 had the directories v9 and v10, a file v3, the
\* entries vx and notes, and block 2 its v1; keeping one version deleted v9
\* and nothing else
C29_Witness ==
  /\ cleanup.done
  /\ cleanup.block_id = 1
  /\ cleanup.keep_versions = 1
  /\ cleanup.failed = {}
  /\ cleanup.entries = {<<1, "v9">>, <<1, "v10">>, <<1, "v3">>, <<1, "vx">>,
                        <<1, "notes">>, <<2, "v1">>}
  /\ cleanup.left = cleanup.entries \ {<<1, "v9">>}

\* the answers of the oracle to an update or a heal whose run is followed:
\* the code of the earlier versions or a new one
NewCodes == Codes \cup {"code2"}

\* the backend code that a refresh of block b runs from the store st: the
\* code noted on the row it caches when the run succeeds
RefreshedCode(st, b) ==
  LET r == refresh_block_data(st, now, b, <<"p1">>, <<>>)
  IN r.st.data[Len(r.st.data)].code

\* the call r advanced current_version of block b
Advanced(r, b) ==
  /\ r.outcome = "returned"
  /\ r.st.blocks[b].current_version > blocks[b].current_version

\* C30: calls being made one after the other, when an Update or a Heal has
\* advanced current_version with a successful run of the code gen, the code
\* that the next RefreshData runs is gen, not the code of an earlier failed
\* attempt at the same version number
C30_RefreshRunsValidatedCode ==
  Quiet =>
    \A b \in Existing, gen \in NewCodes, run \in Payloads :
      /\ Advanced(update_block(Store, now, b, gen, run), b) =>
           RefreshedCode(update_block(Store, now, b, gen, run).st, b) = gen
      /\ Advanced(heal_block(Store, now, b, gen, run), b) =>
           RefreshedCode(heal_block(Store, now, b, gen, run).st, b) = gen

\* the cached rows of block b that the store holds
CachedRows(b) == {i \in 1..Len(data) : data[i].block_id = b}

\* the results of a GetData on block b made right after the call that
\* returned r, each with the row its cache query returned
ReadsAfter(r, b) ==
  UNION {{[row |-> pick, call |-> g] :
            g \in GetDataResults(r.st, now, b, pick, <<>>, <<>>)} :
           pick \in Picks(r.st, b)}

\* C31: when an Update or a Heal has advanced current_version, a GetData
\* that follows returns no payload tagged cached from a row that was cached
\* before the advance, such a row having been produced by the code of an
\* earlier version
C31_CachedFromCurrentVersion ==
  Quiet =>
    \A b \in Existing, gen \in NewCodes, run \in Payloads :
      \A u \in {update_block(Store, now, b, gen, run),
                heal_block(Store, now, b, gen, run)} :
        Advanced(u, b) =>
          \A read \in ReadsAfter(u, b) :
            read.call.cached => read.row \notin CachedRows(b)

====
